---- MODULE Spec2Model ----
(***************************************************************************)
(* Model of the blocking ESP-AT network adapter (src/src/wifi.rs and       *)
(* src/src/stack.rs): the session state, the URC subscription queue, and   *)
(* the public operations socket / connect / is_connected / send / close /  *)
(* restart.  An operation is cut into steps at the points where it blocks  *)
(* on the peer (a command whose answer is followed by a URC drain, or a    *)
(* timer poll); URCs are published into the subscription at any time.      *)
(* The async adapter (src/src/asynch) runs the same steps under the guard   *)
(* of its mutex, and the two passes of the URC parser (src/src/urc.rs) are *)
(* operators over byte sequences.                                          *)
(***************************************************************************)
EXTENDS Integers, Sequences, FiniteSets, TLC

VARIABLES
    session,           \* wifi.rs Session: the network state of the adapter
    urc_subscription,  \* wifi.rs Adapter.urc_subscription: published, not yet processed URCs
    pc,                \* position of the (single threaded) caller inside an operation
    cur,               \* locals of the operation in progress
    handles,           \* Socket objects held by the application, counted per link_id
    ret,               \* operation last called and what it returned
    wire,              \* commands handed to client.send() by the operation last called
    cfg_cmds,          \* successful CIPMUX / CIPRECVMODE commands since the last session reset
    mutex,             \* asynch/wifi.rs Adapter.inner: the task whose guard is alive
    announced,         \* the WIFI link as the URCs published so far describe it
    ingress,           \* bytes in the digester's buffer and what the two parser passes made of them
    peer               \* payloads the peer holds and has not answered with SEND OK / SEND FAIL yet

vars ==
    <<session, urc_subscription, pc, cur, handles, ret, wire, cfg_cmds, mutex, announced,
      ingress, peer>>

\* ------------------------------------------------------------------ bounds
MaxUrcQueue == 2      \* URCs that may be pending in the subscription
MaxUrcLink == 0       \* the peer reports socket events for link ids 0..MaxUrcLink
MaxHandles == 3       \* Socket objects the application holds at a time
MaxSendLen == 3       \* longest buffer handed to send()
TX_SIZE == 2          \* const generic TX_SIZE of the Adapter (chunk size of send)
RX_SIZE == 2          \* const generic RX_SIZE of the Adapter (block size of receive)
MaxRecvLen == 3       \* longest buffer handed to receive()
MaxAvailable == 2     \* largest byte count a +IPD announces
MaxTasks == 2         \* tasks that call the async adapter

\* --------------------------------------------------------------- constants
SocketCount == 5

LinkIds == 0..(SocketCount - 1)

None == <<>>

Some(x) == <<x>>

NoLink == 0 - 1

Min(a, b) == IF a < b THEN a ELSE b

\* ----------------------------------------------------------------- session
ClosedSocket == [state |-> "Closed", data_available |-> 0]

DefaultSession ==
    [joined |-> FALSE,
     ip_assigned |-> FALSE,
     ready |-> FALSE,
     multi_connections_enabled |-> FALSE,
     passive_mode_enabled |-> FALSE,
     sockets |-> [i \in LinkIds |-> ClosedSocket],
     recv_byte_count |-> None,
     send_confirmed |-> None,
     already_connected |-> FALSE,
     data |-> None]

\* ------------------------------------------------------------ URC messages
Urc(type, link_id, length) ==
    [type |-> type, link_id |-> link_id, length |-> length, data |-> <<>>]

UrcReady == Urc("Ready", 0, 0)
UrcWifiConnected == Urc("WifiConnected", 0, 0)
UrcWifiDisconnected == Urc("WifiDisconnected", 0, 0)
UrcReceivedIP == Urc("ReceivedIP", 0, 0)
UrcAlreadyConnected == Urc("AlreadyConnected", 0, 0)
UrcSendConfirmation == Urc("SendConfirmation", 0, 0)
UrcSendFail == Urc("SendFail", 0, 0)
UrcUnknown == Urc("Unknown", 0, 0)
UrcEcho == Urc("Echo", 0, 0)
UrcSocketConnected(i) == Urc("SocketConnected", i, 0)
UrcSocketClosed(i) == Urc("SocketClosed", i, 0)
UrcReceivedBytes(n) == Urc("ReceivedBytes", 0, n)
UrcDataAvailable(i, n) == Urc("DataAvailable", i, n)
UrcData(d) == [Urc("Data", 0, Len(d)) EXCEPT !.data = d]

\* -------------------------------------------------- URC parser (urc.rs)
\* Bytes are numbers 0..255 and buffers are sequences of bytes; Lit holds the
\* literals of the parser, spelled in bytes
CRLF == <<13, 10>>
Lit ==
    [ciprecvdata |-> <<43, 67, 73, 80, 82, 69, 67, 86, 68, 65, 84, 65, 44>>,
     at |-> <<65, 84, 43>>,
     ipd |-> <<43, 73, 80, 68>>,
     ready |-> <<114, 101, 97, 100, 121>>,
     ready_cr |-> <<114, 101, 97, 100, 121, 13>>,
     send_ok |-> <<83, 69, 78, 68, 32, 79, 75>>,
     send_fail |-> <<83, 69, 78, 68, 32, 70, 65, 73, 76>>,
     wifi |-> <<87, 73, 70, 73>>,
     wifi_connected |-> <<87, 73, 70, 73, 32, 67, 79, 78, 78, 69, 67, 84, 69, 68>>,
     wifi_disconnect |-> <<87, 73, 70, 73, 32, 68, 73, 83, 67, 79, 78, 78, 69, 67, 84>>,
     wifi_got_ip |-> <<87, 73, 70, 73, 32, 71, 79, 84, 32, 73, 80>>,
     connect |-> <<44, 67, 79, 78, 78, 69, 67, 84>>,
     closed |-> <<44, 67, 76, 79, 83, 69, 68>>,
     already_connected |-> <<65, 76, 82, 69, 65, 68, 89, 32, 67, 79, 78, 78, 69, 67, 84, 69, 68>>,
     recv |-> <<82, 101, 99, 118>>,
     bytes |-> <<98, 121, 116, 101, 115>>,
     rst_cause |-> <<114, 115, 116, 32, 99, 97, 117, 115, 101, 58>>]

\* the smallest number of a non-empty set of numbers
Least(S) == CHOOSE x \in S : \A y \in S : x <= y

\* s[from..to] of a slice, indices counted from 0 as in the source
Slice(s, from, to) == SubSeq(s, from + 1, to)

\* positions (from 1) at which needle occurs in s
Occurrences(s, needle) ==
    {i \in 1..(Len(s) - Len(needle) + 1) : SubSeq(s, i, i + Len(needle) - 1) = needle}

\* a continuation byte of a UTF-8 sequence
IsContinuation(b) == b \in 128..191

\* bytes of the UTF-8 sequence a lead byte opens; 0: not a lead byte
Utf8Width(b) ==
    IF b < 128 THEN 1
    ELSE IF b \in 194..223 THEN 2
    ELSE IF b \in 224..239 THEN 3
    ELSE IF b \in 240..244 THEN 4
    ELSE 0

\* core::str::from_utf8 succeeds: every lead byte is followed by its
\* continuation bytes
RECURSIVE Utf8Valid(_)
Utf8Valid(s) ==
    IF s = <<>>
    THEN TRUE
    ELSE LET n == Utf8Width(Head(s)) IN
         /\ n > 0
         /\ Len(s) >= n
         /\ \A i \in 2..n : IsContinuation(s[i])
         /\ Utf8Valid(SubSeq(s, n + 1, Len(s)))

\* str::is_char_boundary of a valid string
is_char_boundary(s, i) ==
    \/ i = 0
    \/ i = Len(s)
    \/ i < Len(s) /\ ~IsContinuation(s[i + 1])

IsDigit(b) == b \in 48..57

RECURSIVE DecimalValue(_)
DecimalValue(s) == IF s = <<>> THEN 0 ELSE DecimalValue(SubSeq(s, 1, Len(s) - 1)) * 10 + (s[Len(s)] - 48)

\* str::parse::<usize>: digits after an optional plus sign; None for anything
\* else.  The digit strings of the inputs stay far below usize::MAX
parse_usize(s) ==
    LET digits == IF s # <<>> /\ s[1] = 43 THEN Tail(s) ELSE s IN
    IF digits # <<>> /\ \A i \in 1..Len(digits) : IsDigit(digits[i])
    THEN Some(DecimalValue(digits))
    ELSE None

\* the answers of a parser pass
Matched(frame, consumed) == [kind |-> "Match", frame |-> frame, consumed |-> consumed]
Incomplete == [kind |-> "Incomplete", frame |-> <<>>, consumed |-> 0]
NoMatch == [kind |-> "NoMatch", frame |-> <<>>, consumed |-> 0]
Panic == [kind |-> "Panic", frame |-> <<>>, consumed |-> 0]

\* DataResponseParser::parse on a buffer that starts with the 13 byte header
DataResponseParser_parse(buffer) ==
    LET colons == {i \in 1..Len(buffer) : buffer[i] = 58} IN
    IF colons = {}
    THEN [kind |-> "Incomplete", length |-> 0, length_str |-> <<>>, data |-> <<>>]
    ELSE LET separator == Least(colons) - 1
             length_str == Slice(buffer, 13, separator)
             length == parse_usize(length_str)
             remaining_data == Slice(buffer, separator + 1, Len(buffer))
         IN IF ~Utf8Valid(length_str) \/ length = None
            THEN [kind |-> "NoMatch", length |-> 0, length_str |-> <<>>, data |-> <<>>]
            ELSE IF Len(remaining_data) < length[1]
                 THEN [kind |-> "Incomplete", length |-> 0, length_str |-> <<>>, data |-> <<>>]
                 ELSE [kind |-> "Ok", length |-> length[1], length_str |-> length_str,
                       data |-> remaining_data]

\* SizeBasedMatcher::matches: Some(start) if the buffer holds a sized message
SizeBasedMatcher_matches(buffer) ==
    LET content == {i \in 1..Len(buffer) : buffer[i] # 13 /\ buffer[i] # 10} IN
    IF Len(buffer) < 15 \/ content = {}
    THEN None
    ELSE LET start == Least(content) - 1
             data == Slice(buffer, start, Len(buffer))
         IN IF Len(data) < 13 \/ Slice(data, 0, 13) # Lit.ciprecvdata THEN None ELSE Some(start)

\* SizeBasedMatcher::handle
SizeBasedMatcher_handle(buffer, start) ==
    LET data == Slice(buffer, start, Len(buffer))
        message == DataResponseParser_parse(data)
        total_length == start + 13 + Len(message.length_str) + 1 + message.length
    IN IF message.kind = "Incomplete" THEN Incomplete
       ELSE IF message.kind = "NoMatch" THEN NoMatch
       ELSE Matched(Slice(data, 0, total_length - start), total_length)

\* LineBasedMatcher::matches_receive_confirmation; line[..4] is known to be
\* sliceable here
matches_receive_confirmation(line) ==
    IF Len(line) < 12 THEN "false"
    ELSE IF Slice(line, 0, 4) # Lit.recv THEN "false"
    ELSE IF ~is_char_boundary(line, Len(line) - 6) THEN "panic"
    ELSE IF Slice(line, Len(line) - 6, Len(line)) # Lit.bytes THEN "true" ELSE "false"

\* LineBasedMatcher::matches_lines_based_urc on a line of at least 4 bytes:
\* the needles are tried in the order of the source, and a str slice that
\* does not end on a character boundary panics
matches_lines_based_urc(line) ==
    IF line = Lit.ready THEN "true"
    ELSE IF ~is_char_boundary(line, 3) THEN "panic"
    ELSE IF Slice(line, 0, 3) = Lit.at THEN "true"
    ELSE IF ~is_char_boundary(line, 4) THEN "panic"
    ELSE IF Slice(line, 0, 4) = Lit.ipd THEN "true"
    ELSE IF line = Lit.send_ok \/ line = Lit.send_fail THEN "true"
    ELSE IF Slice(line, 0, 4) = Lit.wifi THEN "true"
    ELSE IF ~is_char_boundary(line, 1) THEN "panic"
    ELSE IF Slice(line, 1, Len(line)) = Lit.connect THEN "true"
    ELSE IF Slice(line, 1, Len(line)) = Lit.closed THEN "true"
    ELSE IF line = Lit.already_connected THEN "true"
    ELSE matches_receive_confirmation(line)

\* the loop of LineBasedMatcher::handle over encoded.split("\r\n"), from the
\* piece that begins at offset start; start and end agree until the first
\* line with content
RECURSIVE line_loop(_, _)
line_loop(buffer, start) ==
    IF start > Len(buffer)
    THEN NoMatch
    ELSE LET rest == Slice(buffer, start, Len(buffer))
             ends == Occurrences(rest, CRLF)
             line == IF ends = {} THEN rest ELSE SubSeq(rest, 1, Least(ends) - 1)
             end == start + Len(line) + 2
         IN IF line = <<>>
            THEN IF ends = {} THEN NoMatch ELSE line_loop(buffer, start + 2)
            ELSE IF Len(line) < 4 THEN NoMatch
            ELSE IF Len(buffer) < end THEN NoMatch
            ELSE LET verdict == matches_lines_based_urc(line) IN
                 IF verdict = "panic" THEN Panic
                 ELSE IF verdict = "true" THEN Matched(Slice(buffer, start, end), end)
                 ELSE NoMatch

\* LineBasedMatcher::handle
LineBasedMatcher_handle(buffer) == IF ~Utf8Valid(buffer) THEN NoMatch ELSE line_loop(buffer, 0)

\* BootMessageParser::is_boot_line
is_boot_line(line) == Utf8Valid(line) /\ Occurrences(line, Lit.rst_cause) # {}

\* the loop of BootMessageParser::handle over buffer.split(b'\n'), from the
\* piece that begins rest
RECURSIVE boot_loop(_, _, _)
boot_loop(rest, size, is_boot_seq) ==
    LET feeds == {i \in 1..Len(rest) : rest[i] = 10}
        line == IF feeds = {} THEN rest ELSE SubSeq(rest, 1, Least(feeds) - 1)
        after == IF feeds = {} THEN <<>> ELSE SubSeq(rest, Least(feeds) + 1, Len(rest))
        grown == size + Len(line) + 1
    IN IF ~is_boot_seq /\ is_boot_line(line)
       THEN IF feeds = {} THEN NoMatch ELSE boot_loop(after, grown, TRUE)
       ELSE IF is_boot_seq /\ line = Lit.ready_cr
            THEN Matched(Lit.ready_cr \o <<10>>, grown)
            ELSE IF feeds = {} THEN NoMatch ELSE boot_loop(after, grown, is_boot_seq)

\* BootMessageParser::handle
BootMessageParser_handle(buffer) == boot_loop(buffer, 0, FALSE)

\* <URCMessages as Parser>::parse, the first pass
Parser_parse(buf) ==
    IF Len(buf) < 6
    THEN Incomplete
    ELSE LET matcher == SizeBasedMatcher_matches(buf) IN
         IF matcher # None
         THEN SizeBasedMatcher_handle(buf, matcher[1])
         ELSE LET line == LineBasedMatcher_handle(buf) IN
              IF line.kind \in {"Match", "Panic"} THEN line ELSE BootMessageParser_handle(buf)

\* slip: every decimal digit is taken as a link id
parse_link_id_any_digit(link_id) == IF link_id \in 48..57 THEN Some(link_id - 48) ELSE None

\* URCMessages::parse_link_id
parse_link_id(link_id) == IF link_id \in 48..52 THEN Some(link_id - 48) ELSE None

\* the pieces of s between the occurrences of the byte b, as str::split
RECURSIVE SplitBy(_, _)
SplitBy(s, b) ==
    LET at == {i \in 1..Len(s) : s[i] = b} IN
    IF at = {}
    THEN <<s>>
    ELSE <<SubSeq(s, 1, Least(at) - 1)>> \o SplitBy(SubSeq(s, Least(at) + 1, Len(s)), b)

\* the answers of the second pass: an event, no event, or a panic
Decoded(urc) == [kind |-> "Some", urc |-> Some(urc)]
NoEvent == [kind |-> "None", urc |-> None]
DecodePanic == [kind |-> "Panic", urc |-> None]

\* URCMessages::parse_receive_byte_count of a response that starts with Recv
parse_receive_byte_count(resp) ==
    IF Len(resp) < 8 \/ Len(resp) - 8 < 5
    THEN DecodePanic
    ELSE LET byte_count == Slice(resp, 5, Len(resp) - 8) IN
         IF Utf8Valid(byte_count) /\ parse_usize(byte_count) # None
         THEN Decoded(UrcReceivedBytes(parse_usize(byte_count)[1]))
         ELSE NoEvent

\* URCMessages::parse_data_available of a response that starts with +IPD
parse_data_available(data) ==
    LET string == Slice(data, 0, Len(data) - 2)
        parts == SplitBy(string, 44)
    IN IF ~Utf8Valid(string) \/ Len(parts) < 3
       THEN NoEvent
       ELSE LET link_id == parse_usize(parts[2])
                length == parse_usize(parts[Len(parts)])
            IN IF link_id = None \/ length = None
               THEN NoEvent
               ELSE Decoded(UrcDataAvailable(link_id[1], length[1]))

\* <URCMessages as AtatUrc>::parse, the second pass; a slice of the response
\* beyond its end panics
AtatUrc_parse(resp) ==
    IF Len(resp) < 3 THEN DecodePanic
    ELSE IF Slice(resp, 0, 3) = Lit.at THEN Decoded(UrcEcho)
    ELSE IF Len(resp) < 4 THEN DecodePanic
    ELSE IF Slice(resp, 0, 4) = Lit.ipd THEN parse_data_available(resp)
    ELSE IF Len(resp) > 15 /\ Slice(resp, 0, 13) = Lit.ciprecvdata
         THEN LET message == DataResponseParser_parse(resp) IN
              IF message.kind # "Ok" \/ Len(message.data) > RX_SIZE
              THEN NoEvent
              ELSE Decoded(UrcData(message.data))
    ELSE IF Slice(resp, 1, Len(resp) - 2) = Lit.connect
         THEN IF parse_link_id(resp[1]) = None
              THEN NoEvent
              ELSE Decoded(UrcSocketConnected(parse_link_id(resp[1])[1]))
    ELSE IF Slice(resp, 1, Len(resp) - 2) = Lit.closed
         THEN IF parse_link_id(resp[1]) = None
              THEN NoEvent
              ELSE Decoded(UrcSocketClosed(parse_link_id(resp[1])[1]))
    ELSE IF Slice(resp, 0, 4) = Lit.recv THEN parse_receive_byte_count(resp)
    ELSE LET line == Slice(resp, 0, Len(resp) - 2) IN
         CASE line = Lit.ready -> Decoded(UrcReady)
           [] line = Lit.send_ok -> Decoded(UrcSendConfirmation)
           [] line = Lit.send_fail -> Decoded(UrcSendFail)
           [] line = Lit.wifi_connected -> Decoded(UrcWifiConnected)
           [] line = Lit.wifi_disconnect -> Decoded(UrcWifiDisconnected)
           [] line = Lit.wifi_got_ip -> Decoded(UrcReceivedIP)
           [] line = Lit.already_connected -> Decoded(UrcAlreadyConnected)
           [] OTHER -> Decoded(UrcUnknown)

\* the digester's input before the passes ran
Unparsed == [kind |-> "Unparsed", frame |-> <<>>, consumed |-> 0]
Undecoded == [kind |-> "Undecoded", urc |-> None]
NoIngress == [buf |-> <<>>, first |-> Unparsed, second |-> Undecoded]

\* slip: a second n,CLOSED for a slot that is already Closing frees the slot
handle_urc_auto_close(s, m) ==
    CASE m.type = "WifiDisconnected" -> [s EXCEPT !.joined = FALSE, !.ip_assigned = FALSE]
      [] m.type = "ReceivedIP" -> [s EXCEPT !.ip_assigned = TRUE]
      [] m.type = "WifiConnected" -> [s EXCEPT !.joined = TRUE]
      [] m.type = "Ready" -> [s EXCEPT !.ready = TRUE]
      [] m.type = "SocketConnected" -> [s EXCEPT !.sockets[m.link_id].state = "Connected"]
      [] m.type = "SocketClosed" ->
            [s EXCEPT !.sockets[m.link_id].state = IF @ = "Closing" THEN "Closed" ELSE "Closing"]
      [] m.type = "AlreadyConnected" -> [s EXCEPT !.already_connected = TRUE]
      [] m.type = "ReceivedBytes" -> [s EXCEPT !.recv_byte_count = Some(m.length)]
      [] m.type = "SendConfirmation" -> [s EXCEPT !.send_confirmed = Some(TRUE)]
      [] m.type = "SendFail" -> [s EXCEPT !.send_confirmed = Some(FALSE)]
      [] m.type = "DataAvailable" ->
            IF m.link_id < SocketCount
            THEN [s EXCEPT !.sockets[m.link_id].data_available = m.length]
            ELSE s
      [] m.type = "Data" -> [s EXCEPT !.data = Some(m.data)]
      [] OTHER -> s

\* Session::handle_urc
handle_urc(s, m) ==
    CASE m.type = "WifiDisconnected" -> [s EXCEPT !.joined = FALSE, !.ip_assigned = FALSE]
      [] m.type = "ReceivedIP" -> [s EXCEPT !.ip_assigned = TRUE]
      [] m.type = "WifiConnected" -> [s EXCEPT !.joined = TRUE]
      [] m.type = "Ready" -> [s EXCEPT !.ready = TRUE]
      [] m.type = "SocketConnected" -> [s EXCEPT !.sockets[m.link_id].state = "Connected"]
      [] m.type = "SocketClosed" -> [s EXCEPT !.sockets[m.link_id].state = "Closing"]
      [] m.type = "AlreadyConnected" -> [s EXCEPT !.already_connected = TRUE]
      [] m.type = "ReceivedBytes" -> [s EXCEPT !.recv_byte_count = Some(m.length)]
      [] m.type = "SendConfirmation" -> [s EXCEPT !.send_confirmed = Some(TRUE)]
      [] m.type = "SendFail" -> [s EXCEPT !.send_confirmed = Some(FALSE)]
      [] m.type = "DataAvailable" ->
            IF m.link_id < SocketCount
            THEN [s EXCEPT !.sockets[m.link_id].data_available = m.length]
            ELSE s
      [] m.type = "Data" -> [s EXCEPT !.data = Some(m.data)]
      [] OTHER -> s

\* slip: the pending messages are applied newest first
RECURSIVE process_urc_messages_newest_first(_, _)
process_urc_messages_newest_first(s, q) ==
    IF q = <<>>
    THEN s
    ELSE process_urc_messages_newest_first(handle_urc(s, q[Len(q)]), SubSeq(q, 1, Len(q) - 1))

\* Adapter::process_urc_messages: applies every pending message, oldest first
RECURSIVE process_urc_messages(_, _)
process_urc_messages(s, q) ==
    IF q = <<>> THEN s ELSE process_urc_messages(handle_urc(s, Head(q)), Tail(q))

\* --------------------------------------------------------- session queries
is_socket_open(s, id) == s.sockets[id].state = "Open"

is_socket_closed(s, id) == s.sockets[id].state = "Closed"

is_socket_closing(s, id) == s.sockets[id].state = "Closing"

\* slip: a remotely closed socket still counts as connected
is_socket_connected_or_closing(s, id) == s.sockets[id].state \in {"Connected", "Closing"}

is_socket_connected(s, id) == s.sockets[id].state = "Connected"

\* slip: the reported byte count is never compared with the chunk
is_received_byte_count_ignored(s, actual_data_length) == FALSE

is_received_byte_count_incorrect(s, actual_data_length) ==
    s.recv_byte_count # None /\ s.recv_byte_count[1] # actual_data_length

\* slip: a socket without announced data still counts as readable
is_data_available_always(s, id) == s.sockets[id].data_available >= 0

is_data_available(s, id) == s.sockets[id].data_available > 0

reduce_available_data(s, id, length) ==
    IF s.sockets[id].data_available < length
    THEN [s EXCEPT !.sockets[id].data_available = 0]
    ELSE [s EXCEPT !.sockets[id].data_available = @ - length]

reset_available_data(s, id) == [s EXCEPT !.sockets[id].data_available = 0]

\* slip: position of the last Closed socket
get_next_open_last(s) ==
    IF \E i \in LinkIds : s.sockets[i].state = "Closed"
    THEN Some(CHOOSE i \in LinkIds :
                /\ s.sockets[i].state = "Closed"
                /\ \A j \in LinkIds : s.sockets[j].state = "Closed" => i >= j)
    ELSE None

\* Session::get_next_open: position of the first Closed socket
get_next_open(s) ==
    IF \E i \in LinkIds : s.sockets[i].state = "Closed"
    THEN Some(CHOOSE i \in LinkIds :
                /\ s.sockets[i].state = "Closed"
                /\ \A j \in LinkIds : s.sockets[j].state = "Closed" => i <= j)
    ELSE None

\* ---------------------------------------------------------------- commands
Cmd(name, link_id, length) ==
    [name |-> name, link_id |-> link_id, length |-> length, data |-> <<>>]

CmdRestart == Cmd("Restart", NoLink, 0)
CmdWifiModeStation == Cmd("WifiMode", NoLink, 1)
CmdAccessPointConnect == Cmd("AccessPointConnect", NoLink, 0)
CmdObtainLocalAddress == Cmd("ObtainLocalAddress", NoLink, 0)
CmdAutoConnect == Cmd("AutoConnect", NoLink, 0)
CmdSetMultipleConnections == Cmd("SetMultipleConnections", NoLink, 0)
CmdSetSocketReceivingMode == Cmd("SetSocketReceivingMode", NoLink, 0)
CmdConnect(id) == Cmd("Connect", id, 0)
CmdCloseSocket(id) == Cmd("CloseSocket", id, 0)
CmdTransmissionPrepare(id, n) == Cmd("TransmissionPrepare", id, n)
CmdTransmission(data) == [Cmd("Transmission", NoLink, Len(data)) EXCEPT !.data = data]
CmdReceiveData(id, n) == Cmd("ReceiveData", id, n)

\* ------------------------------------------------------------------- state
\* tasks of the async application; the blocking adapter is owned by one caller
Tasks == 1..MaxTasks

NoTask == 0

\* slip: the lock resolves although another guard is alive
lock_while_held(t) == mutex' = t

\* Mutex::lock of the async Adapter: resolves for one task while no guard is
\* alive; the guard lives until the operation returns
lock(t) == mutex = NoTask /\ mutex' = t

\* what the peer has announced about the WIFI link, in the order it said it
announce(a, m) ==
    CASE m.type = "WifiConnected" -> [a EXCEPT !.joined = TRUE]
      [] m.type = "ReceivedIP" -> [a EXCEPT !.ip_assigned = TRUE]
      [] m.type = "WifiDisconnected" -> [a EXCEPT !.joined = FALSE, !.ip_assigned = FALSE]
      [] OTHER -> a

\* nothing was announced yet; ready: a ready banner was published since the
\* session was last reset by restart()
NothingAnnounced == [joined |-> FALSE, ip_assigned |-> FALSE, ready |-> FALSE]

\* the caller's receive buffer behind the Buffer helper; a cell that was
\* never written holds 0
NoBuffer == [buffer |-> <<>>, position |-> 0]

\* wifi.rs JoinState, as handed to the caller of join / get_join_status
JoinState(s) == [connected |-> s.joined, ip_assigned |-> s.ip_assigned]

NoJoinState == [connected |-> FALSE, ip_assigned |-> FALSE]

NoLocals ==
    [link_id |-> NoLink, chunk |-> <<>>, rest |-> <<>>, length |-> 0,
     client_reset |-> FALSE, buffer |-> NoBuffer, join_state |-> NoJoinState]

Ret(op, result, link_id, value) == [op |-> op, result |-> result, link_id |-> link_id, value |-> value]

NoRet == Ret("none", "none", NoLink, 0)

Init ==
    /\ session = DefaultSession
    /\ urc_subscription = <<>>
    /\ pc = "idle"
    /\ cur = NoLocals
    /\ handles = [i \in LinkIds |-> 0]
    /\ ret = NoRet
    /\ wire = <<>>
    /\ cfg_cmds = [cipmux |-> 0, ciprecvmode |-> 0]
    /\ mutex = NoTask
    /\ announced = NothingAnnounced
    /\ ingress = NoIngress
    /\ peer = None

RECURSIVE SumTo(_, _)
SumTo(f, n) == IF n < 0 THEN 0 ELSE f[n] + SumTo(f, n - 1)

HandleCount == SumTo(handles, SocketCount - 1)

Held == {i \in LinkIds : handles[i] > 0}

\* the operation has handed its result to the caller, who goes on; a guard
\* of the async adapter is dropped
Return ==
    /\ pc = "return"
    /\ pc' = "idle"
    /\ ret' = NoRet
    /\ wire' = <<>>
    /\ cur' = NoLocals
    /\ UNCHANGED <<session, urc_subscription, handles, cfg_cmds>>
    /\ mutex' = NoTask
    /\ UNCHANGED <<announced, ingress, peer>>

\* the ledger of the peer, kept in the specifications that start it with
\* Some(0): a payload the peer accepted is answered by one SEND OK or SEND
\* FAIL, and the answers come in the order of the payloads
handed_over(ledger, accepted) ==
    IF ledger # None /\ accepted THEN Some(ledger[1] + 1) ELSE ledger

answered(ledger, m) ==
    IF ledger # None /\ m.type \in {"SendConfirmation", "SendFail"}
    THEN Some(ledger[1] - 1)
    ELSE ledger

\* the ingress side publishes a parsed URC into the subscription
DeliverUrc(m) ==
    /\ pc # "return"
    /\ Len(urc_subscription) < MaxUrcQueue
    /\ urc_subscription' = Append(urc_subscription, m)
    /\ UNCHANGED <<session, pc, cur, handles, ret, wire, cfg_cmds>>
    /\ announced' = [announce(announced, m) EXCEPT !.ready = @ \/ m.type = "Ready"]
    /\ peer' = answered(peer, m)
    /\ UNCHANGED <<mutex, ingress>>

\* ---------------------------------------------------------------- socket()
\* slip: the flag is not stored after the command
enable_multiple_connections_unlatched(s, cmd_ok) ==
    IF s.multi_connections_enabled
    THEN [session |-> s, result |-> "Ok", cmds |-> <<>>]
    ELSE IF ~cmd_ok
         THEN [session |-> s, result |-> "EnablingMultiConnectionsFailed",
               cmds |-> <<CmdSetMultipleConnections>>]
         ELSE [session |-> s, result |-> "Ok", cmds |-> <<CmdSetMultipleConnections>>]

\* Adapter::enable_multiple_connections; cmd_ok is the answer of the peer
enable_multiple_connections(s, cmd_ok) ==
    IF s.multi_connections_enabled
    THEN [session |-> s, result |-> "Ok", cmds |-> <<>>]
    ELSE IF ~cmd_ok
         THEN [session |-> s, result |-> "EnablingMultiConnectionsFailed",
               cmds |-> <<CmdSetMultipleConnections>>]
         ELSE [session |-> [s EXCEPT !.multi_connections_enabled = TRUE], result |-> "Ok",
               cmds |-> <<CmdSetMultipleConnections>>]

\* Adapter::open_socket
open_socket(s) ==
    LET next == get_next_open(s) IN
    IF next # None
    THEN [session |-> [s EXCEPT !.sockets[next[1]].state = "Open"], result |-> "Ok",
          link_id |-> next[1]]
    ELSE [session |-> s, result |-> "NoSocketAvailable", link_id |-> NoLink]

CountCmd(n, sent) == IF sent THEN Min(n + 1, 2) ELSE n

\* TcpClientStack::socket
Socket(max_held) ==
    /\ pc = "idle"
    /\ HandleCount < max_held
    /\ \E cmd_ok \in BOOLEAN :
         LET e == enable_multiple_connections(session, cmd_ok)
             o == open_socket(e.session)
         IN /\ wire' = e.cmds
            /\ cfg_cmds' = [cfg_cmds EXCEPT
                              !.cipmux = CountCmd(@, e.cmds # <<>> /\ e.result = "Ok")]
            /\ IF e.result # "Ok"
               THEN /\ session' = e.session
                    /\ ret' = Ret("socket", e.result, NoLink, 0)
                    /\ handles' = handles
               ELSE /\ session' = o.session
                    /\ ret' = Ret("socket", o.result, o.link_id, 0)
                    /\ handles' = IF o.result = "Ok"
                                  THEN [handles EXCEPT ![o.link_id] = @ + 1]
                                  ELSE handles
    /\ cur' = NoLocals
    /\ pc' = "return"
    /\ UNCHANGED urc_subscription
    /\ UNCHANGED <<mutex, announced, ingress, peer>>

\* --------------------------------------------------------------- connect()
\* Adapter::enable_passive_receiving_mode
enable_passive_receiving_mode(s, cmd_ok) ==
    IF s.passive_mode_enabled
    THEN [session |-> s, result |-> "Ok", cmds |-> <<>>]
    ELSE IF ~cmd_ok
         THEN [session |-> s, result |-> "EnablingPassiveSocketModeFailed",
               cmds |-> <<CmdSetSocketReceivingMode>>]
         ELSE [session |-> [s EXCEPT !.passive_mode_enabled = TRUE], result |-> "Ok",
               cmds |-> <<CmdSetSocketReceivingMode>>]

\* slip: the flag of an earlier ALREADY CONNECTED is not cleared
connect_begin_keep_flag(s, q, id, mode_ok) ==
    LET d == process_urc_messages(s, q)
        e == enable_passive_receiving_mode(d, mode_ok)
    IN IF is_socket_connected(d, id)
       THEN [session |-> d, result |-> "AlreadyConnected", cmds |-> <<>>]
       ELSE IF e.result # "Ok"
            THEN [session |-> e.session, result |-> e.result, cmds |-> e.cmds]
            ELSE [session |-> e.session,
                  result |-> "pending", cmds |-> e.cmds \o <<CmdConnect(id)>>]

\* slip: the receiving mode is set up before the state of the socket is looked at
connect_begin_mode_first(s, q, id, mode_ok) ==
    LET d == process_urc_messages(s, q)
        e == enable_passive_receiving_mode(d, mode_ok)
    IN IF e.result # "Ok"
       THEN [session |-> e.session, result |-> e.result, cmds |-> e.cmds]
       ELSE IF is_socket_connected(d, id)
            THEN [session |-> e.session, result |-> "AlreadyConnected", cmds |-> e.cmds]
            ELSE [session |-> [e.session EXCEPT !.already_connected = FALSE],
                  result |-> "pending", cmds |-> e.cmds \o <<CmdConnect(id)>>]

\* TcpClientStack::connect up to the answer of the Connect command
connect_begin(s, q, id, mode_ok) ==
    LET d == process_urc_messages(s, q)
        e == enable_passive_receiving_mode(d, mode_ok)
    IN IF is_socket_connected(d, id)
       THEN [session |-> d, result |-> "AlreadyConnected", cmds |-> <<>>]
       ELSE IF e.result # "Ok"
            THEN [session |-> e.session, result |-> e.result, cmds |-> e.cmds]
            ELSE [session |-> [e.session EXCEPT !.already_connected = FALSE],
                  result |-> "pending", cmds |-> e.cmds \o <<CmdConnect(id)>>]

\* slip: an unconfirmed socket is given back to the pool
connect_finish_closes_unconfirmed(s, q, id, cmd_ok) ==
    LET d == process_urc_messages(s, q) IN
    IF d.already_connected
    THEN [session |-> [d EXCEPT !.sockets[id].state = "Connected"], result |-> "Ok"]
    ELSE IF ~cmd_ok
         THEN [session |-> d, result |-> "ConnectError"]
         ELSE IF ~is_socket_connected(d, id)
              THEN [session |-> [d EXCEPT !.sockets[id].state = "Closed"],
                    result |-> "UnconfirmedSocketState"]
              ELSE [session |-> reset_available_data(d, id), result |-> "Ok"]

\* TcpClientStack::connect after the Connect command was answered
connect_finish(s, q, id, cmd_ok) ==
    LET d == process_urc_messages(s, q) IN
    IF d.already_connected
    THEN [session |-> [d EXCEPT !.sockets[id].state = "Connected"], result |-> "Ok"]
    ELSE IF ~cmd_ok
         THEN [session |-> d, result |-> "ConnectError"]
         ELSE IF ~is_socket_connected(d, id)
              THEN [session |-> d, result |-> "UnconfirmedSocketState"]
              ELSE [session |-> reset_available_data(d, id), result |-> "Ok"]

ConnectBegin(id) ==
    /\ pc = "idle"
    /\ handles[id] > 0
    /\ \E mode_ok \in BOOLEAN :
         LET b == connect_begin(session, urc_subscription, id, mode_ok) IN
         /\ session' = b.session
         /\ wire' = b.cmds
         /\ cfg_cmds' = [cfg_cmds EXCEPT
                           !.ciprecvmode = CountCmd(@, b.cmds # <<>>
                                                       /\ Head(b.cmds) = CmdSetSocketReceivingMode
                                                       /\ b.result = "pending")]
         /\ IF b.result = "pending"
            THEN /\ pc' = "connect"
                 /\ cur' = [NoLocals EXCEPT !.link_id = id]
                 /\ ret' = Ret("connect", "pending", id, 0)
            ELSE /\ pc' = "return"
                 /\ cur' = NoLocals
                 /\ ret' = Ret("connect", b.result, id, 0)
    /\ urc_subscription' = <<>>
    /\ UNCHANGED handles
    /\ UNCHANGED <<mutex, announced, ingress, peer>>

ConnectFinish ==
    /\ pc = "connect"
    /\ \E cmd_ok \in BOOLEAN :
         LET f == connect_finish(session, urc_subscription, cur.link_id, cmd_ok) IN
         /\ session' = f.session
         /\ ret' = Ret("connect", f.result, cur.link_id, 0)
    /\ pc' = "return"
    /\ cur' = NoLocals
    /\ urc_subscription' = <<>>
    /\ UNCHANGED <<handles, wire, cfg_cmds>>
    /\ UNCHANGED <<mutex, announced, ingress, peer>>

\* ---------------------------------------------------------- is_connected()
\* TcpClientStack::is_connected
IsConnected(id) ==
    /\ pc = "idle"
    /\ handles[id] > 0
    /\ session' = process_urc_messages(session, urc_subscription)
    /\ ret' = Ret("is_connected", "Ok", id, IF is_socket_connected(session', id) THEN 1 ELSE 0)
    /\ urc_subscription' = <<>>
    /\ wire' = <<>>
    /\ cur' = NoLocals
    /\ pc' = "return"
    /\ UNCHANGED <<handles, cfg_cmds>>
    /\ UNCHANGED <<mutex, announced, ingress, peer>>

\* ----------------------------------------------------------------- close()
\* TcpClientStack::close up to the answer of the CloseSocket command
close_begin(s, q, id) ==
    LET d == process_urc_messages(s, q) IN
    IF is_socket_closed(d, id)
    THEN [session |-> d, result |-> "Ok", cmds |-> <<>>]
    ELSE IF is_socket_closing(d, id) \/ is_socket_open(d, id)
         THEN [session |-> [d EXCEPT !.sockets[id].state = "Closed"], result |-> "Ok",
               cmds |-> <<>>]
         ELSE [session |-> d, result |-> "pending", cmds |-> <<CmdCloseSocket(id)>>]

\* slip: the socket is set to Closed only when the close was confirmed
close_finish_on_success(s, q, id, cmd_ok) ==
    LET d == process_urc_messages(s, q)
        result == IF ~is_socket_closing(d, id) /\ cmd_ok
                  THEN "UnconfirmedSocketState"
                  ELSE IF cmd_ok THEN "Ok" ELSE "CloseError"
    IN [session |-> IF result = "Ok" THEN [d EXCEPT !.sockets[id].state = "Closed"] ELSE d,
        result |-> result]

\* TcpClientStack::close after the CloseSocket command was answered
close_finish(s, q, id, cmd_ok) ==
    LET d == process_urc_messages(s, q) IN
    [session |-> [d EXCEPT !.sockets[id].state = "Closed"],
     result |-> IF ~is_socket_closing(d, id) /\ cmd_ok
                THEN "UnconfirmedSocketState"
                ELSE IF cmd_ok THEN "Ok" ELSE "CloseError"]

\* the Socket object is moved into close(): the application gives it up
CloseBegin(id) ==
    /\ pc = "idle"
    /\ handles[id] > 0
    /\ handles' = [handles EXCEPT ![id] = @ - 1]
    /\ LET b == close_begin(session, urc_subscription, id) IN
         /\ session' = b.session
         /\ wire' = b.cmds
         /\ IF b.result = "pending"
            THEN /\ pc' = "close"
                 /\ cur' = [NoLocals EXCEPT !.link_id = id]
                 /\ ret' = Ret("close", "pending", id, 0)
            ELSE /\ pc' = "return"
                 /\ cur' = NoLocals
                 /\ ret' = Ret("close", b.result, id, 0)
    /\ urc_subscription' = <<>>
    /\ UNCHANGED cfg_cmds
    /\ UNCHANGED <<mutex, announced, ingress, peer>>

CloseFinish ==
    /\ pc = "close"
    /\ \E cmd_ok \in BOOLEAN :
         LET f == close_finish(session, urc_subscription, cur.link_id, cmd_ok) IN
         /\ session' = f.session
         /\ ret' = Ret("close", f.result, cur.link_id, 0)
    /\ pc' = "return"
    /\ cur' = NoLocals
    /\ urc_subscription' = <<>>
    /\ UNCHANGED <<handles, wire, cfg_cmds>>
    /\ UNCHANGED <<mutex, announced, ingress, peer>>

\* --------------------------------------------------------------- restart()
\* slip: only the ready flag is cleared, the session is kept
restart_begin_keep_session(s, cmd_ok, timer_ok) ==
    IF ~cmd_ok
    THEN [session |-> [s EXCEPT !.ready = FALSE], result |-> "CommandFailed", reset |-> FALSE]
    ELSE [session |-> [s EXCEPT !.ready = FALSE],
          result |-> IF timer_ok THEN "pending" ELSE "TimerError", reset |-> TRUE]

\* WifiAdapter::restart up to the start of the ready timer
restart_begin(s, cmd_ok, timer_ok) ==
    IF ~cmd_ok
    THEN [session |-> [s EXCEPT !.ready = FALSE], result |-> "CommandFailed", reset |-> FALSE]
    ELSE [session |-> DefaultSession,
          result |-> IF timer_ok THEN "pending" ELSE "TimerError", reset |-> TRUE]

\* slip: the pending URCs are looked at before the timer
restart_wait_drain_first(s, q, t) ==
    LET d == process_urc_messages(s, q) IN
    IF d.ready
    THEN [session |-> d, queue |-> <<>>, result |-> "Ok"]
    ELSE IF t = "Error"
         THEN [session |-> d, queue |-> <<>>, result |-> "TimerError"]
         ELSE IF t = "Expired"
              THEN [session |-> d, queue |-> <<>>, result |-> "ReadyTimeout"]
              ELSE [session |-> d, queue |-> <<>>, result |-> "pending"]

\* one pass of the wait loop of restart; t is the answer of timer.wait()
restart_wait(s, q, t) ==
    IF t = "Error"
    THEN [session |-> s, queue |-> q, result |-> "TimerError"]
    ELSE IF t = "Expired"
         THEN [session |-> s, queue |-> q, result |-> "ReadyTimeout"]
         ELSE LET d == process_urc_messages(s, q) IN
              [session |-> d, queue |-> <<>>, result |-> IF d.ready THEN "Ok" ELSE "pending"]

TimerAnswers == {"WouldBlock", "Expired", "Error"}

RestartBegin ==
    /\ pc = "idle"
    /\ \E cmd_ok, timer_ok \in BOOLEAN :
         LET b == restart_begin(session, cmd_ok, timer_ok) IN
         /\ session' = b.session
         /\ cfg_cmds' = IF b.reset THEN [cipmux |-> 0, ciprecvmode |-> 0] ELSE cfg_cmds
         /\ ret' = Ret("restart", b.result, NoLink, 0)
         /\ announced' = IF b.reset THEN [announced EXCEPT !.ready = FALSE] ELSE announced
         /\ pc' = IF b.result = "pending" THEN "restart" ELSE "return"
    /\ wire' = <<CmdRestart>>
    /\ cur' = NoLocals
    /\ UNCHANGED <<urc_subscription, handles>>
    /\ UNCHANGED <<mutex, ingress, peer>>

RestartWait ==
    /\ pc = "restart"
    /\ \E t \in TimerAnswers :
         LET w == restart_wait(session, urc_subscription, t) IN
         /\ session' = w.session
         /\ urc_subscription' = w.queue
         /\ ret' = Ret("restart", w.result, NoLink, 0)
         /\ pc' = IF w.result = "pending" THEN "restart" ELSE "return"
    /\ UNCHANGED <<cur, handles, wire, cfg_cmds>>
    /\ UNCHANGED <<mutex, announced, ingress, peer>>

\* -------------------------------------------------- join / get_join_status
\* longest SSID and password connect_access_point accepts, in bytes
MaxSsidLength == 32
MaxPasswordLength == 63

\* WifiAdapter::join up to the answer of the AccessPointConnect command;
\* the credentials are represented by their lengths
join_begin(ssid_len, key_len, mode_ok) ==
    IF ~mode_ok
    THEN [result |-> "ModeError", cmds |-> <<CmdWifiModeStation>>]
    ELSE IF ssid_len > MaxSsidLength
         THEN [result |-> "InvalidSSDLength", cmds |-> <<CmdWifiModeStation>>]
         ELSE IF key_len > MaxPasswordLength
              THEN [result |-> "InvalidPasswordLength", cmds |-> <<CmdWifiModeStation>>]
              ELSE [result |-> "pending",
                    cmds |-> <<CmdWifiModeStation, CmdAccessPointConnect>>]

\* WifiAdapter::join after the AccessPointConnect command was answered
join_finish(s, q, cmd_ok) ==
    IF ~cmd_ok
    THEN [session |-> s, queue |-> q, result |-> "ConnectError", join_state |-> NoJoinState]
    ELSE LET d == process_urc_messages(s, q) IN
         [session |-> d, queue |-> <<>>, result |-> "Ok", join_state |-> JoinState(d)]

JoinBegin(ssid_len, key_len) ==
    /\ pc = "idle"
    /\ \E mode_ok \in BOOLEAN :
         LET b == join_begin(ssid_len, key_len, mode_ok) IN
         /\ wire' = b.cmds
         /\ ret' = Ret("join", b.result, NoLink, 0)
         /\ pc' = IF b.result = "pending" THEN "join" ELSE "return"
    /\ cur' = NoLocals
    /\ UNCHANGED <<session, urc_subscription, handles, cfg_cmds, mutex, announced, ingress, peer>>

JoinFinish ==
    /\ pc = "join"
    /\ \E cmd_ok \in BOOLEAN :
         LET f == join_finish(session, urc_subscription, cmd_ok) IN
         /\ session' = f.session
         /\ urc_subscription' = f.queue
         /\ ret' = Ret("join", f.result, NoLink, 0)
         /\ cur' = [NoLocals EXCEPT !.join_state = f.join_state]
    /\ pc' = "return"
    /\ UNCHANGED <<handles, wire, cfg_cmds, mutex, announced, ingress, peer>>

\* WifiAdapter::get_join_status
GetJoinStatus ==
    /\ pc = "idle"
    /\ session' = process_urc_messages(session, urc_subscription)
    /\ urc_subscription' = <<>>
    /\ ret' = Ret("get_join_status", "Ok", NoLink, 0)
    /\ cur' = [NoLocals EXCEPT !.join_state = JoinState(session')]
    /\ wire' = <<>>
    /\ pc' = "return"
    /\ UNCHANGED <<handles, cfg_cmds, mutex, announced, ingress, peer>>

\* ------------------------------------------------------------------ send()
\* slip: the Closing check is missing
assert_socket_connected_only(s, id) ==
    IF ~is_socket_connected(s, id) THEN "SocketUnconnected" ELSE "Ok"

\* Adapter::assert_socket_connected
assert_socket_connected(s, id) ==
    IF is_socket_closing(s, id)
    THEN "ClosingSocket"
    ELSE IF ~is_socket_connected(s, id) THEN "SocketUnconnected" ELSE "Ok"

\* buffer.chunks(TX_SIZE): the first chunk and what follows it
FirstChunk(buffer) == SubSeq(buffer, 1, Min(TX_SIZE, Len(buffer)))

\* slip: the following chunks start one byte early
AfterFirstChunk_overlapping(buffer) == SubSeq(buffer, TX_SIZE, Len(buffer))

AfterFirstChunk(buffer) == SubSeq(buffer, TX_SIZE + 1, Len(buffer))

\* slip: send_chunk leaves the confirmation state of the chunk before
send_start_chunk_keep_confirmation(s, id, chunk, prepare_ok, payload_ok, timer_ok) ==
    LET prepare == CmdTransmissionPrepare(id, Len(chunk))
        payload == CmdTransmission(chunk)
    IN IF ~prepare_ok
       THEN [session |-> s, result |-> "TransmissionStartFailed", cmds |-> <<prepare>>]
       ELSE IF ~payload_ok
            THEN [session |-> s, result |-> "SendFailed(Command)", cmds |-> <<prepare, payload>>]
            ELSE [session |-> s,
                  result |-> IF timer_ok THEN "pending" ELSE "TimerError",
                  cmds |-> <<prepare, payload>>]

\* one pass of the for loop of send up to the wait loop of send_chunk:
\* TransmissionPrepareCommand, then send_chunk clears the confirmation state,
\* writes the payload and starts the timer
send_start_chunk(s, id, chunk, prepare_ok, payload_ok, timer_ok) ==
    LET cleared == [s EXCEPT !.send_confirmed = None, !.recv_byte_count = None]
        prepare == CmdTransmissionPrepare(id, Len(chunk))
        payload == CmdTransmission(chunk)
    IN IF ~prepare_ok
       THEN [session |-> s, result |-> "TransmissionStartFailed", cmds |-> <<prepare>>]
       ELSE IF ~payload_ok
            THEN [session |-> cleared, result |-> "SendFailed(Command)",
                  cmds |-> <<prepare, payload>>]
            ELSE [session |-> cleared,
                  result |-> IF timer_ok THEN "pending" ELSE "TimerError",
                  cmds |-> <<prepare, payload>>]

\* slip: the byte count is compared before the confirmation has arrived
send_wait_count_first(s, q, chunk_len, t) ==
    LET d == process_urc_messages(s, q) IN
    IF d.send_confirmed # None /\ ~d.send_confirmed[1]
    THEN [session |-> d, result |-> "SendFailed(Error)", client_reset |-> TRUE]
    ELSE IF is_received_byte_count_incorrect(d, chunk_len)
         THEN [session |-> d, result |-> "PartialSend", client_reset |-> FALSE]
         ELSE IF d.send_confirmed # None
              THEN [session |-> d, result |-> "ChunkSent", client_reset |-> FALSE]
              ELSE IF t = "Expired"
                   THEN [session |-> d, result |-> "SendFailed(Timeout)", client_reset |-> TRUE]
                   ELSE IF t = "Error"
                        THEN [session |-> d, result |-> "TimerError", client_reset |-> FALSE]
                        ELSE [session |-> d, result |-> "pending", client_reset |-> FALSE]

\* one pass of the wait loop of send_chunk; t is the answer of timer.wait()
send_wait(s, q, chunk_len, t) ==
    LET d == process_urc_messages(s, q) IN
    IF d.send_confirmed # None
    THEN IF ~d.send_confirmed[1]
         THEN [session |-> d, result |-> "SendFailed(Error)", client_reset |-> TRUE]
         ELSE IF is_received_byte_count_incorrect(d, chunk_len)
              THEN [session |-> d, result |-> "PartialSend", client_reset |-> FALSE]
              ELSE [session |-> d, result |-> "ChunkSent", client_reset |-> FALSE]
    ELSE IF t = "Expired"
         THEN [session |-> d, result |-> "SendFailed(Timeout)", client_reset |-> TRUE]
         ELSE IF t = "Error"
              THEN [session |-> d, result |-> "TimerError", client_reset |-> FALSE]
              ELSE [session |-> d, result |-> "pending", client_reset |-> FALSE]

SendBuffers == {[i \in 1..n |-> i] : n \in 0..MaxSendLen}

\* the chunk is handed to the peer: shared by the first and the following chunks
StartChunk(s, id, buffer_len, chunk, rest) ==
    \E prepare_ok, payload_ok, timer_ok \in BOOLEAN :
        LET b == send_start_chunk(s, id, chunk, prepare_ok, payload_ok, timer_ok) IN
        /\ session' = b.session
        /\ wire' = wire \o b.cmds
        /\ cur' = [NoLocals EXCEPT !.link_id = id, !.chunk = chunk, !.rest = rest,
                                   !.length = buffer_len]
        /\ pc' = IF b.result = "pending" THEN "send_wait" ELSE "return"
        /\ ret' = Ret("send", b.result, id, 0)
        /\ peer' = handed_over(peer, b.result \in {"pending", "TimerError"})

\* TcpClientStack::send up to the first wait for a confirmation
SendBegin(id, buffer) ==
    /\ pc = "idle"
    /\ handles[id] > 0
    /\ LET d == process_urc_messages(session, urc_subscription)
           a == assert_socket_connected(d, id)
       IN IF a # "Ok" \/ buffer = <<>>
          THEN /\ session' = d
               /\ wire' = <<>>
               /\ cur' = NoLocals
               /\ pc' = "return"
               /\ ret' = Ret("send", a, id, 0)
               /\ UNCHANGED peer
          ELSE StartChunk(d, id, Len(buffer), FirstChunk(buffer), AfterFirstChunk(buffer))
    /\ urc_subscription' = <<>>
    /\ UNCHANGED <<handles, cfg_cmds>>
    /\ UNCHANGED <<mutex, announced, ingress>>

SendWait ==
    /\ pc = "send_wait"
    /\ \E t \in TimerAnswers :
         LET w == send_wait(session, urc_subscription, Len(cur.chunk), t) IN
         /\ session' = w.session
         /\ cur' = [cur EXCEPT !.client_reset = w.client_reset]
         /\ IF w.result = "pending"
            THEN /\ pc' = "send_wait"
                 /\ ret' = ret
            ELSE IF w.result = "ChunkSent"
                 THEN IF cur.rest = <<>>
                      THEN /\ pc' = "return"
                           /\ ret' = Ret("send", "Ok", cur.link_id, cur.length)
                      ELSE /\ pc' = "send_next"
                           /\ ret' = ret
                 ELSE /\ pc' = "return"
                      /\ ret' = Ret("send", w.result, cur.link_id, 0)
    /\ urc_subscription' = <<>>
    /\ UNCHANGED <<handles, wire, cfg_cmds>>
    /\ UNCHANGED <<mutex, announced, ingress, peer>>

SendNext ==
    /\ pc = "send_next"
    /\ StartChunk(session, cur.link_id, cur.length, FirstChunk(cur.rest),
                  AfterFirstChunk(cur.rest))
    /\ UNCHANGED <<urc_subscription, handles, cfg_cmds>>
    /\ UNCHANGED <<mutex, announced, ingress>>

\* ------------------------------------------- async adapter (src/src/asynch)
\* TcpConnect::connect up to the answer of the Connect command: the socket is
\* opened by connect itself
asynch_connect_begin(s, q, mux_ok, mode_ok) ==
    LET e == enable_multiple_connections(s, mux_ok)
        o == open_socket(e.session)
        b == connect_begin(o.session, q, o.link_id, mode_ok)
    IN IF e.result # "Ok"
       THEN [session |-> e.session, result |-> e.result, link_id |-> NoLink, cmds |-> e.cmds,
             drained |-> FALSE]
       ELSE IF o.result # "Ok"
            THEN [session |-> o.session, result |-> o.result, link_id |-> NoLink,
                  cmds |-> e.cmds, drained |-> FALSE]
            ELSE [session |-> b.session, result |-> b.result, link_id |-> o.link_id,
                  cmds |-> e.cmds \o b.cmds, drained |-> TRUE]

AsynchConnectBegin ==
    /\ \E t \in Tasks : lock(t)
    /\ \E mux_ok, mode_ok \in BOOLEAN :
         LET b == asynch_connect_begin(session, urc_subscription, mux_ok, mode_ok) IN
         /\ session' = b.session
         /\ wire' = b.cmds
         /\ cfg_cmds' =
                [cipmux |-> CountCmd(cfg_cmds.cipmux,
                                     CmdSetMultipleConnections \in {b.cmds[i] : i \in 1..Len(b.cmds)}
                                         /\ b.result # "EnablingMultiConnectionsFailed"),
                 ciprecvmode |-> CountCmd(cfg_cmds.ciprecvmode,
                                     CmdSetSocketReceivingMode \in {b.cmds[i] : i \in 1..Len(b.cmds)}
                                         /\ b.result = "pending")]
         /\ urc_subscription' = IF b.drained THEN <<>> ELSE urc_subscription
         /\ ret' = Ret("asynch_connect", b.result, b.link_id, 0)
         /\ IF b.result = "pending"
            THEN /\ pc' = "asynch_connect"
                 /\ cur' = [NoLocals EXCEPT !.link_id = b.link_id]
            ELSE /\ pc' = "return"
                 /\ cur' = NoLocals
    /\ UNCHANGED handles
    /\ UNCHANGED <<announced, ingress, peer>>

\* the Connection handed out on success holds the Socket
AsynchConnectFinish ==
    /\ pc = "asynch_connect"
    /\ \E cmd_ok \in BOOLEAN :
         LET f == connect_finish(session, urc_subscription, cur.link_id, cmd_ok) IN
         /\ session' = f.session
         /\ ret' = Ret("asynch_connect", f.result, cur.link_id, 0)
         /\ handles' = IF f.result = "Ok" THEN [handles EXCEPT ![cur.link_id] = @ + 1] ELSE handles
    /\ pc' = "return"
    /\ cur' = NoLocals
    /\ urc_subscription' = <<>>
    /\ UNCHANGED <<wire, cfg_cmds>>
    /\ UNCHANGED <<mutex, announced, ingress, peer>>

\* InnerAdapter::send_chunk from the select of the timer and the wait task:
\* the timer is polled first, then the task makes one pass of its loop
asynch_send_wait(s, q, chunk_len, timer_fired) ==
    LET d == process_urc_messages(s, q) IN
    IF timer_fired
    THEN [session |-> s, queue |-> q, result |-> "SendFailed(Timeout)", client_reset |-> FALSE]
    ELSE IF d.send_confirmed # None
         THEN IF ~d.send_confirmed[1]
              THEN [session |-> d, queue |-> <<>>, result |-> "SendFailed(Error)",
                    client_reset |-> FALSE]
              ELSE IF is_received_byte_count_incorrect(d, chunk_len)
                   THEN [session |-> d, queue |-> <<>>, result |-> "PartialSend",
                         client_reset |-> FALSE]
                   ELSE [session |-> d, queue |-> <<>>, result |-> "ChunkSent",
                         client_reset |-> FALSE]
         ELSE [session |-> d, queue |-> <<>>, result |-> "pending", client_reset |-> FALSE]

\* the chunk is handed to the peer; Timer::after cannot fail
WriteChunk(s, id, buffer_len, chunk, rest) ==
    \E prepare_ok, payload_ok \in BOOLEAN :
        LET b == send_start_chunk(s, id, chunk, prepare_ok, payload_ok, TRUE) IN
        /\ session' = b.session
        /\ wire' = wire \o b.cmds
        /\ cur' = [NoLocals EXCEPT !.link_id = id, !.chunk = chunk, !.rest = rest,
                                   !.length = buffer_len]
        /\ pc' = IF b.result = "pending" THEN "write_wait" ELSE "return"
        /\ ret' = Ret("write", b.result, id, 0)

\* Write::write up to the first wait for a confirmation
WriteBegin(id, buffer) ==
    /\ \E t \in Tasks : lock(t)
    /\ handles[id] > 0
    /\ LET d == process_urc_messages(session, urc_subscription)
           a == assert_socket_connected(d, id)
       IN IF a # "Ok" \/ buffer = <<>>
          THEN /\ session' = d
               /\ wire' = <<>>
               /\ cur' = NoLocals
               /\ pc' = "return"
               /\ ret' = Ret("write", a, id, 0)
          ELSE WriteChunk(d, id, Len(buffer), FirstChunk(buffer), AfterFirstChunk(buffer))
    /\ urc_subscription' = <<>>
    /\ UNCHANGED <<handles, cfg_cmds>>
    /\ UNCHANGED <<announced, ingress, peer>>

WriteWait ==
    /\ pc = "write_wait"
    /\ \E timer_fired \in BOOLEAN :
         LET w == asynch_send_wait(session, urc_subscription, Len(cur.chunk), timer_fired) IN
         /\ session' = w.session
         /\ urc_subscription' = w.queue
         /\ cur' = [cur EXCEPT !.client_reset = w.client_reset]
         /\ IF w.result = "pending"
            THEN /\ pc' = "write_wait"
                 /\ ret' = ret
            ELSE IF w.result = "ChunkSent"
                 THEN IF cur.rest = <<>>
                      THEN /\ pc' = "return"
                           /\ ret' = Ret("write", "Ok", cur.link_id, cur.length)
                      ELSE /\ pc' = "write_next"
                           /\ ret' = ret
                 ELSE /\ pc' = "return"
                      /\ ret' = Ret("write", w.result, cur.link_id, 0)
    /\ UNCHANGED <<handles, wire, cfg_cmds>>
    /\ UNCHANGED <<mutex, announced, ingress, peer>>

WriteNext ==
    /\ pc = "write_next"
    /\ WriteChunk(session, cur.link_id, cur.length, FirstChunk(cur.rest),
                  AfterFirstChunk(cur.rest))
    /\ UNCHANGED <<urc_subscription, handles, cfg_cmds>>
    /\ UNCHANGED <<mutex, announced, ingress, peer>>

\* --------------------------------------------------------------- receive()
\* Buffer::new over a caller buffer of the given length
BufferNew(capacity) == [buffer |-> [i \in 1..capacity |-> 0], position |-> 0]

\* Buffer::buffer_space
buffer_space(b) == Len(b.buffer) - b.position

\* slip: a full block is requested whatever space is left
get_next_length_chunk_size(b) == RX_SIZE

\* Buffer::get_next_length
get_next_length(b) == IF buffer_space(b) > RX_SIZE THEN RX_SIZE ELSE buffer_space(b)

\* Buffer::is_full
is_full(b) == IF Len(b.buffer) = 0 THEN TRUE ELSE b.position >= Len(b.buffer)

\* Buffer::len
buffer_len(b) == b.position

\* Buffer::append
append(b, data) ==
    IF Len(data) > buffer_space(b)
    THEN [buffer |-> b, result |-> "ReceiveOverflow"]
    ELSE LET end == b.position + Len(data) IN
         [buffer |-> [buffer |-> [i \in 1..Len(b.buffer) |->
                                     IF i > b.position /\ i <= end
                                     THEN data[i - b.position]
                                     ELSE b.buffer[i]],
                      position |-> end],
          result |-> "Ok"]

\* the head of the receive loop: either the next ReceiveData command is
\* written or the loop is left with the fill length
receive_loop(s, id, b) ==
    IF is_data_available(s, id) /\ ~is_full(b)
    THEN [session |-> s, buffer |-> b, result |-> "pending", value |-> 0,
          cmds |-> <<CmdReceiveData(id, get_next_length(b))>>]
    ELSE [session |-> s, buffer |-> b, result |-> "Ok", value |-> buffer_len(b),
          cmds |-> <<>>]

\* TcpClientStack::receive up to the answer of the first ReceiveData command
receive_begin(s, q, id, capacity) ==
    LET d == process_urc_messages(s, q) IN
    IF ~is_data_available(d, id)
    THEN [session |-> d, buffer |-> BufferNew(capacity), result |-> "WouldBlock",
          value |-> 0, cmds |-> <<>>]
    ELSE receive_loop(d, id, BufferNew(capacity))

\* TcpClientStack::receive, one pass of the loop after the ReceiveData
\* command was answered
receive_step(s, q, id, b, cmd_ok) ==
    LET d == process_urc_messages(s, q) IN
    IF ~cmd_ok
    THEN [session |-> s, queue |-> q, buffer |-> b, result |-> "ReceiveFailed",
          value |-> 0, cmds |-> <<>>]
    ELSE IF d.data = None
         THEN [session |-> d, queue |-> <<>>, buffer |-> b,
               result |-> "ReceiveFailed(InvalidResponse)", value |-> 0, cmds |-> <<>>]
         ELSE LET data == d.data[1]
                  r == reduce_available_data([d EXCEPT !.data = None], id, Len(data))
                  a == append(b, data)
              IN IF a.result # "Ok"
                 THEN [session |-> r, queue |-> <<>>, buffer |-> b,
                       result |-> a.result, value |-> 0, cmds |-> <<>>]
                 ELSE [queue |-> <<>>] @@ receive_loop(r, id, a.buffer)

ReceiveBegin(id, capacity) ==
    /\ pc = "idle"
    /\ handles[id] > 0
    /\ LET b == receive_begin(session, urc_subscription, id, capacity) IN
         /\ session' = b.session
         /\ wire' = b.cmds
         /\ cur' = [NoLocals EXCEPT !.link_id = id, !.buffer = b.buffer]
         /\ ret' = Ret("receive", b.result, id, b.value)
         /\ pc' = IF b.result = "pending" THEN "receive" ELSE "return"
    /\ urc_subscription' = <<>>
    /\ UNCHANGED <<handles, cfg_cmds>>
    /\ UNCHANGED <<mutex, announced, ingress, peer>>

ReceiveStep ==
    /\ pc = "receive"
    /\ \E cmd_ok \in BOOLEAN :
         LET r == receive_step(session, urc_subscription, cur.link_id, cur.buffer, cmd_ok) IN
         /\ session' = r.session
         /\ urc_subscription' = r.queue
         /\ wire' = wire \o r.cmds
         /\ cur' = [cur EXCEPT !.buffer = r.buffer]
         /\ ret' = Ret("receive", r.result, cur.link_id, r.value)
         /\ pc' = IF r.result = "pending" THEN "receive" ELSE "return"
    /\ UNCHANGED <<handles, cfg_cmds>>
    /\ UNCHANGED <<mutex, announced, ingress, peer>>

\* ------------------------------- async adapter: WifiAdapter and Read::read
\* WifiAdapter::join of the async Adapter: the blocking steps under the guard
AsynchJoinBegin(ssid_len, key_len) ==
    /\ \E t \in Tasks : lock(t)
    /\ \E mode_ok \in BOOLEAN :
         LET b == join_begin(ssid_len, key_len, mode_ok) IN
         /\ wire' = b.cmds
         /\ ret' = Ret("asynch_join", b.result, NoLink, 0)
         /\ pc' = IF b.result = "pending" THEN "asynch_join" ELSE "return"
    /\ cur' = NoLocals
    /\ UNCHANGED <<session, urc_subscription, handles, cfg_cmds, announced, ingress, peer>>

AsynchJoinFinish ==
    /\ pc = "asynch_join"
    /\ \E cmd_ok \in BOOLEAN :
         LET f == join_finish(session, urc_subscription, cmd_ok) IN
         /\ session' = f.session
         /\ urc_subscription' = f.queue
         /\ ret' = Ret("asynch_join", f.result, NoLink, 0)
         /\ cur' = [NoLocals EXCEPT !.join_state = f.join_state]
    /\ pc' = "return"
    /\ UNCHANGED <<handles, wire, cfg_cmds, mutex, announced, ingress, peer>>

\* WifiAdapter::get_join_status of the async Adapter
AsynchGetJoinStatus ==
    /\ \E t \in Tasks : lock(t)
    /\ session' = process_urc_messages(session, urc_subscription)
    /\ urc_subscription' = <<>>
    /\ ret' = Ret("asynch_get_join_status", "Ok", NoLink, 0)
    /\ cur' = [NoLocals EXCEPT !.join_state = JoinState(session')]
    /\ wire' = <<>>
    /\ pc' = "return"
    /\ UNCHANGED <<handles, cfg_cmds, announced, ingress, peer>>

\* get_address and set_auto_connect of the async Adapter: one command is
\* sent under the guard
AsynchCommands == {[op |-> "get_address", cmd |-> CmdObtainLocalAddress],
                   [op |-> "set_auto_connect", cmd |-> CmdAutoConnect]}

AsynchCommandBegin(c) ==
    /\ \E t \in Tasks : lock(t)
    /\ wire' = <<c.cmd>>
    /\ ret' = Ret(c.op, "pending", NoLink, 0)
    /\ pc' = "asynch_command"
    /\ cur' = NoLocals
    /\ UNCHANGED <<session, urc_subscription, handles, cfg_cmds, announced, ingress, peer>>

\* the command was answered; the guard is dropped with the statement
AsynchCommandFinish ==
    /\ pc = "asynch_command"
    /\ \E cmd_ok \in BOOLEAN :
         ret' = [ret EXCEPT !.result = IF cmd_ok THEN "Ok" ELSE "CommandError"]
    /\ pc' = "return"
    /\ UNCHANGED <<session, urc_subscription, cur, handles, wire, cfg_cmds, mutex, announced, ingress, peer>>

\* one poll of the select in the async restart: the timer first, then the
\* task, which checks the ready flag before it drains and yields
asynch_restart_wait(s, q, timer_fired) ==
    IF timer_fired
    THEN [session |-> s, queue |-> q, result |-> "ReadyTimeout"]
    ELSE IF s.ready
         THEN [session |-> s, queue |-> q, result |-> "Ok"]
         ELSE [session |-> process_urc_messages(s, q), queue |-> <<>>, result |-> "pending"]

\* WifiAdapter::restart of the async Adapter up to the select
AsynchRestartBegin ==
    /\ \E t \in Tasks : lock(t)
    /\ \E cmd_ok \in BOOLEAN :
         LET b == restart_begin(session, cmd_ok, TRUE) IN
         /\ session' = b.session
         /\ cfg_cmds' = IF b.reset THEN [cipmux |-> 0, ciprecvmode |-> 0] ELSE cfg_cmds
         /\ ret' = Ret("asynch_restart", b.result, NoLink, 0)
         /\ announced' = IF b.reset THEN [announced EXCEPT !.ready = FALSE] ELSE announced
         /\ pc' = IF b.result = "pending" THEN "asynch_restart" ELSE "return"
    /\ wire' = <<CmdRestart>>
    /\ cur' = NoLocals
    /\ UNCHANGED <<urc_subscription, handles, ingress, peer>>

AsynchRestartWait ==
    /\ pc = "asynch_restart"
    /\ \E timer_fired \in BOOLEAN :
         LET w == asynch_restart_wait(session, urc_subscription, timer_fired) IN
         /\ session' = w.session
         /\ urc_subscription' = w.queue
         /\ ret' = Ret("asynch_restart", w.result, NoLink, 0)
         /\ pc' = IF w.result = "pending" THEN "asynch_restart" ELSE "return"
    /\ UNCHANGED <<cur, handles, wire, cfg_cmds>>
    /\ UNCHANGED <<mutex, announced, ingress, peer>>

\* Session::take_data_available: the announced byte count is taken out of
\* the slot
take_data_available(s, id) == [s EXCEPT !.sockets[id].data_available = 0]

\* the head of the pull loop of read: the next ReceiveData command is written
asynch_read_loop(s, id, b) ==
    [session |-> take_data_available(s, id), buffer |-> b, result |-> "pending", value |-> 0,
     cmds |-> <<CmdReceiveData(id, get_next_length(b))>>]

\* Read::read, one pass of the pull loop after the ReceiveData command was
\* answered
asynch_read_step(s, q, id, b, cmd_ok) ==
    LET d == process_urc_messages(s, q) IN
    IF ~cmd_ok
    THEN [session |-> s, queue |-> q, buffer |-> b, result |-> "ReceiveFailed",
          value |-> 0, cmds |-> <<>>]
    ELSE IF d.data = None
         THEN [session |-> d, queue |-> <<>>, buffer |-> b,
               result |-> "ReceiveFailed(InvalidResponse)", value |-> 0, cmds |-> <<>>]
         ELSE LET r == [d EXCEPT !.data = None]
                  a == append(b, d.data[1])
              IN IF a.result # "Ok"
                 THEN [session |-> r, queue |-> <<>>, buffer |-> b,
                       result |-> a.result, value |-> 0, cmds |-> <<>>]
                 ELSE IF ~is_data_available(r, id) \/ is_full(a.buffer)
                      THEN [session |-> r, queue |-> <<>>, buffer |-> a.buffer,
                            result |-> "Ok", value |-> buffer_len(a.buffer), cmds |-> <<>>]
                      ELSE [queue |-> <<>>] @@ asynch_read_loop(r, id, a.buffer)

\* Read::read up to its first suspension: the wait for announced data or the
\* answer of the first ReceiveData command
AsynchReadBegin(id, capacity) ==
    /\ \E t \in Tasks : lock(t)
    /\ handles[id] > 0
    /\ LET d == process_urc_messages(session, urc_subscription) IN
         IF ~is_data_available(d, id)
         THEN /\ session' = d
              /\ wire' = <<>>
              /\ cur' = [NoLocals EXCEPT !.link_id = id, !.buffer = BufferNew(capacity)]
              /\ pc' = "read_wait"
         ELSE LET l == asynch_read_loop(d, id, BufferNew(capacity)) IN
              /\ session' = l.session
              /\ wire' = l.cmds
              /\ cur' = [NoLocals EXCEPT !.link_id = id, !.buffer = l.buffer]
              /\ pc' = "read"
    /\ ret' = Ret("read", "pending", id, 0)
    /\ urc_subscription' = <<>>
    /\ UNCHANGED <<handles, cfg_cmds, announced, ingress, peer>>

\* the task is polled again after yield_now: still holding the guard it
\* looks at the slot, and drains and yields once more if nothing is announced
AsynchReadWait ==
    /\ pc = "read_wait"
    /\ IF is_data_available(session, cur.link_id)
       THEN LET l == asynch_read_loop(session, cur.link_id, cur.buffer) IN
            /\ session' = l.session
            /\ wire' = l.cmds
            /\ pc' = "read"
            /\ UNCHANGED urc_subscription
       ELSE /\ session' = process_urc_messages(session, urc_subscription)
            /\ urc_subscription' = <<>>
            /\ pc' = "read_wait"
            /\ UNCHANGED wire
    /\ UNCHANGED <<cur, ret, handles, cfg_cmds, mutex, announced, ingress, peer>>

AsynchReadStep ==
    /\ pc = "read"
    /\ \E cmd_ok \in BOOLEAN :
         LET r == asynch_read_step(session, urc_subscription, cur.link_id, cur.buffer, cmd_ok) IN
         /\ session' = r.session
         /\ urc_subscription' = r.queue
         /\ wire' = wire \o r.cmds
         /\ cur' = [cur EXCEPT !.buffer = r.buffer]
         /\ ret' = Ret("read", r.result, cur.link_id, r.value)
         /\ pc' = IF r.result = "pending" THEN "read" ELSE "return"
    /\ UNCHANGED <<handles, cfg_cmds, mutex, announced, ingress, peer>>

\* ---------------------------------------------------------- specifications
SocketUrcs ==
    {UrcSocketConnected(i) : i \in 0..MaxUrcLink} \cup {UrcSocketClosed(i) : i \in 0..MaxUrcLink}

LifecycleUrcs == SocketUrcs

RestartUrcs == {UrcSocketConnected(0), UrcSocketClosed(0), UrcReady}

RecvCounts == 1..TX_SIZE

SendUrcs ==
    {UrcSocketConnected(0), UrcSocketClosed(0), UrcSendConfirmation, UrcSendFail}
        \cup {UrcReceivedBytes(n) : n \in RecvCounts}

\* socket lifecycle with restarts
Next ==
    \/ \E m \in RestartUrcs : DeliverUrc(m)
    \/ Socket(MaxHandles)
    \/ \E id \in LinkIds : ConnectBegin(id)
    \/ ConnectFinish
    \/ \E id \in LinkIds : IsConnected(id)
    \/ \E id \in LinkIds : CloseBegin(id)
    \/ CloseFinish
    \/ RestartBegin
    \/ RestartWait
    \/ Return

Spec == Init /\ [][Next]_vars

\* socket lifecycle of an adapter that is never restarted; the application
\* asks for sockets until the pool is used up
NextNoRestart ==
    \/ \E m \in LifecycleUrcs : DeliverUrc(m)
    \/ Socket(SocketCount + 1)
    \/ \E id \in LinkIds : ConnectBegin(id)
    \/ ConnectFinish
    \/ \E id \in LinkIds : IsConnected(id)
    \/ \E id \in LinkIds : CloseBegin(id)
    \/ CloseFinish
    \/ Return

SpecNoRestart == Init /\ [][NextNoRestart]_vars

\* sending on one socket at a time, with the confirmation URCs of the peer
NextSend ==
    \/ \E m \in SendUrcs : DeliverUrc(m)
    \/ Socket(1)
    \/ \E id \in LinkIds : ConnectBegin(id)
    \/ ConnectFinish
    \/ \E id \in LinkIds : CloseBegin(id)
    \/ CloseFinish
    \/ RestartBegin
    \/ RestartWait
    \/ \E id \in LinkIds, buffer \in SendBuffers : SendBegin(id, buffer)
    \/ SendWait
    \/ SendNext
    \/ Return

SpecSend == Init /\ [][NextSend]_vars

\* the async adapter: connections are opened and written to, one task
NextWrite ==
    \/ \E m \in SendUrcs : DeliverUrc(m)
    \/ AsynchConnectBegin
    \/ AsynchConnectFinish
    \/ \E id \in LinkIds, buffer \in SendBuffers : WriteBegin(id, buffer)
    \/ WriteWait
    \/ WriteNext
    \/ Return

SpecWrite == Init /\ [][NextWrite]_vars

\* connecting one socket, with the answers the peer gives to AT+CIPSTART and
\* the +IPD notifications of link 0
ConnectUrcs ==
    {UrcSocketConnected(0), UrcSocketClosed(0), UrcAlreadyConnected, UrcDataAvailable(0, 1)}

NextConnect ==
    \/ \E m \in ConnectUrcs : DeliverUrc(m)
    \/ Socket(1)
    \/ \E id \in LinkIds : ConnectBegin(id)
    \/ ConnectFinish
    \/ \E id \in LinkIds : CloseBegin(id)
    \/ CloseFinish
    \/ Return

SpecConnect == Init /\ [][NextConnect]_vars

\* payloads of +CIPRECVDATA answers: n bytes of value n
Payload(n) == [i \in 1..n |-> n]

\* receiving on link 0 while the peer also announces data for link 1
ReceiveUrcs ==
    {UrcDataAvailable(0, n) : n \in 1..MaxAvailable} \cup {UrcDataAvailable(1, 1)}
        \cup {UrcData(Payload(n)) : n \in 1..RX_SIZE}

NextReceive ==
    \/ \E m \in ReceiveUrcs : DeliverUrc(m)
    \/ Socket(1)
    \/ \E id \in LinkIds, capacity \in 0..MaxRecvLen : ReceiveBegin(id, capacity)
    \/ ReceiveStep
    \/ Return

SpecReceive == Init /\ [][NextReceive]_vars

\* joining an access point, with the WIFI URCs of the peer and restarts
WifiUrcs ==
    {UrcWifiConnected, UrcWifiDisconnected, UrcReceivedIP, UrcReady, UrcEcho, UrcUnknown}

SsidLengths == {1, MaxSsidLength, MaxSsidLength + 1}

PasswordLengths == {0, MaxPasswordLength, MaxPasswordLength + 1}

NextJoin ==
    \/ \E m \in WifiUrcs : DeliverUrc(m)
    \/ \E ssid_len \in SsidLengths, key_len \in PasswordLengths : JoinBegin(ssid_len, key_len)
    \/ JoinFinish
    \/ GetJoinStatus
    \/ RestartBegin
    \/ RestartWait
    \/ Return

SpecJoin == Init /\ [][NextJoin]_vars

\* the life of one slot: every operation and URC that touches its state
SlotUrcs == {UrcSocketConnected(0), UrcSocketClosed(0), UrcAlreadyConnected, UrcReady}

NextSlot ==
    \/ \E m \in SlotUrcs : DeliverUrc(m)
    \/ Socket(1)
    \/ \E id \in LinkIds : ConnectBegin(id)
    \/ ConnectFinish
    \/ \E id \in LinkIds : IsConnected(id)
    \/ \E id \in LinkIds : CloseBegin(id)
    \/ CloseFinish
    \/ RestartBegin
    \/ RestartWait
    \/ Return

SpecSlot == Init /\ [][NextSlot]_vars

\* the async adapter shared by several tasks: every operation of the
\* WifiAdapter, TcpConnect, Read and Write implementations
AsynchUrcs ==
    {UrcSocketConnected(0), UrcSendConfirmation, UrcDataAvailable(0, 1), UrcData(Payload(1))}

\* a write of two chunks
AsynchBuffers == {[i \in 1..(TX_SIZE + 1) |-> i]}

\* connections the tasks of the async scenario hold at a time
MaxConnections == 1

\* slots that are not Closed
SlotsInUse == {i \in LinkIds : session.sockets[i].state # "Closed"}

\* the tasks ask for a further connection only while fewer than MaxConnections
\* slots are in use and no slot has MaxConnections handles
NextAsynch ==
    \/ \E m \in AsynchUrcs : DeliverUrc(m)
    \/ /\ Cardinality(SlotsInUse) < MaxConnections
       /\ \A i \in LinkIds : handles[i] < MaxConnections
       /\ AsynchConnectBegin
    \/ AsynchConnectFinish
    \/ \E id \in LinkIds, buffer \in AsynchBuffers : WriteBegin(id, buffer)
    \/ WriteWait
    \/ WriteNext
    \/ \E id \in LinkIds : AsynchReadBegin(id, 1)
    \/ AsynchReadWait
    \/ AsynchReadStep
    \/ AsynchJoinBegin(1, 0)
    \/ AsynchJoinFinish
    \/ AsynchGetJoinStatus
    \/ \E c \in AsynchCommands : AsynchCommandBegin(c)
    \/ AsynchCommandFinish
    \/ AsynchRestartBegin
    \/ AsynchRestartWait
    \/ Return

SpecAsynch == Init /\ [][NextAsynch]_vars

\* the steps of the tasks, without the deliveries of the peer
AsynchSteps ==
    \/ /\ Cardinality(SlotsInUse) < MaxConnections
       /\ \A i \in LinkIds : handles[i] < MaxConnections
       /\ AsynchConnectBegin
    \/ AsynchConnectFinish
    \/ \E id \in LinkIds, buffer \in AsynchBuffers : WriteBegin(id, buffer)
    \/ WriteWait
    \/ WriteNext
    \/ \E id \in LinkIds : AsynchReadBegin(id, 1)
    \/ AsynchReadWait
    \/ AsynchReadStep
    \/ AsynchJoinBegin(1, 0)
    \/ AsynchJoinFinish
    \/ AsynchGetJoinStatus
    \/ \E c \in AsynchCommands : AsynchCommandBegin(c)
    \/ AsynchCommandFinish
    \/ AsynchRestartBegin
    \/ AsynchRestartWait
    \/ Return

\* the executor polls every task that can make progress (a task that
\* yields is polled again), the peer answers every command and the timers
\* fire; the peer is not obliged to send any URC
SpecAsynchFair == SpecAsynch /\ WF_vars(AsynchSteps)

\* receive() with every Data event the second pass can decode: payloads of
\* 0..RX_SIZE bytes ('+CIPRECVDATA,00:' decodes to an empty payload); a call
\* is followed up to MaxRecvLen + 1 ReceiveData commands
PullUrcs ==
    {UrcDataAvailable(0, n) : n \in 1..MaxAvailable} \cup {UrcData(Payload(n)) : n \in 0..RX_SIZE}

NextPull ==
    \/ \E m \in PullUrcs : DeliverUrc(m)
    \/ Socket(1)
    \/ \E id \in LinkIds, capacity \in 0..MaxRecvLen : ReceiveBegin(id, capacity)
    \/ Len(wire) <= MaxRecvLen /\ ReceiveStep
    \/ Return

SpecPull == Init /\ [][NextPull]_vars

\* send() against a peer that answers every payload it accepted once and in
\* order, with Recv n bytes and SEND OK or SEND FAIL, as late as it likes
MaxUnanswered == 2

StaleUrcs == {UrcSendConfirmation, UrcSendFail, UrcReceivedBytes(TX_SIZE)}

InitStale ==
    /\ session = DefaultSession
    /\ urc_subscription = <<>>
    /\ pc = "idle"
    /\ cur = NoLocals
    /\ handles = [i \in LinkIds |-> 0]
    /\ ret = NoRet
    /\ wire = <<>>
    /\ cfg_cmds = [cipmux |-> 0, ciprecvmode |-> 0]
    /\ mutex = NoTask
    /\ announced = NothingAnnounced
    /\ ingress = NoIngress
    /\ peer = Some(0)

\* the application sends buffers of one chunk and starts a send() while at
\* most MaxUnanswered - 1 payloads wait for their answer
NextStale ==
    \/ DeliverUrc(UrcSocketConnected(0))
    \/ \E m \in StaleUrcs : peer[1] > 0 /\ DeliverUrc(m)
    \/ Socket(1)
    \/ \E id \in LinkIds : ConnectBegin(id)
    \/ ConnectFinish
    \/ \E id \in LinkIds : peer[1] < MaxUnanswered /\ SendBegin(id, [i \in 1..TX_SIZE |-> i])
    \/ SendWait
    \/ Return

SpecStale == InitStale /\ [][NextStale]_vars

\* ------------------------------------------------- the digester's passes
MaxInputLen == 6      \* longest buffer of arbitrary bytes
MaxPayload == 3       \* largest payload of a +CIPRECVDATA frame, declared or present

\* all byte sequences over A of at most n bytes
SeqsUpTo(A, n) == UNION {[1..k -> A] : k \in 0..n}

\* an ASCII letter, CR, LF, and the two bytes of a two byte UTF-8 character
ByteAlphabet == {97, 13, 10, 195, 169}

\* +CIPRECVDATA frames in both framings, after 0..2 CRLFs: the length the
\* frame declares, the payload bytes present (fewer, as many or more than
\* declared, CR and LF among them), and what follows
Framings == {[header |-> <<43, 67, 73, 80, 82, 69, 67, 86, 68, 65, 84, 65, 44>>, delimiter |-> 58],
             [header |-> <<43, 67, 73, 80, 82, 69, 67, 86, 68, 65, 84, 65, 58>>, delimiter |-> 44]}

Leading == {<<>>, CRLF, CRLF \o CRLF}

FramedInput(lead, f, declared, payload, trail) ==
    lead \o f.header \o <<48 + declared>> \o <<f.delimiter>> \o payload \o trail

FramedInputs ==
    {FramedInput(lead, f, declared, payload, trail) :
        lead \in Leading, f \in Framings, declared \in 0..MaxPayload,
        payload \in SeqsUpTo({97, 13, 10}, MaxPayload), trail \in {<<>>, CRLF}}

\* lines the peer emits, and lines it does not
SampleLines ==
    {<<114, 101, 97, 100, 121>>,
     <<83, 69, 78, 68, 32, 79, 75>>,
     <<83, 69, 78, 68, 32, 70, 65, 73, 76>>,
     <<87, 73, 70, 73, 32, 67, 79, 78, 78, 69, 67, 84, 69, 68>>,
     <<87, 73, 70, 73, 32, 68, 73, 83, 67, 79, 78, 78, 69, 67, 84>>,
     <<87, 73, 70, 73, 32, 71, 79, 84, 32, 73, 80>>,
     <<65, 76, 82, 69, 65, 68, 89, 32, 67, 79, 78, 78, 69, 67, 84, 69, 68>>,
     <<48, 44, 67, 79, 78, 78, 69, 67, 84>>,
     <<52, 44, 67, 76, 79, 83, 69, 68>>,
     <<53, 44, 67, 79, 78, 78, 69, 67, 84>>,
     <<43, 73, 80, 68, 44, 48, 44, 53>>,
     <<43, 73, 80, 68, 44, 55, 44, 49>>,
     <<82, 101, 99, 118, 32, 57, 32, 98, 121, 116, 101, 115>>,
     <<65, 84, 43, 67, 73, 80, 77, 85, 88, 61, 49>>,
     <<98, 117, 115, 121, 32, 112, 46, 46, 46>>,
     <<79, 75>>,
     <<195, 169, 44, 67, 79, 78, 78, 69, 67, 84>>,
     <<97, 98, 195, 169>>,
     <<114, 115, 116, 32, 99, 97, 117, 115, 101, 58, 49, 13, 10, 13, 10, 114, 101, 97, 100, 121>>}

LineInputs == {lead \o line \o trail : lead \in {<<>>, CRLF}, line \in SampleLines,
                                       trail \in {<<>>, <<13>>, CRLF}}

\* +CIPRECVDATA frames cut before the length delimiter: the name alone, the
\* name with the separator of the framing, and the declared length after it
TruncatedFrames ==
    {lead \o SubSeq(f.header \o <<48 + declared>>, 1, n) :
        lead \in Leading, f \in Framings, declared \in 0..MaxPayload, n \in 12..14}

DigestInputs ==
    SeqsUpTo(ByteAlphabet, MaxInputLen) \cup FramedInputs \cup TruncatedFrames \cup LineInputs

InitDigest ==
    /\ session = DefaultSession
    /\ urc_subscription = <<>>
    /\ pc = "idle"
    /\ cur = NoLocals
    /\ handles = [i \in LinkIds |-> 0]
    /\ ret = NoRet
    /\ wire = <<>>
    /\ cfg_cmds = [cipmux |-> 0, ciprecvmode |-> 0]
    /\ mutex = NoTask
    /\ announced = NothingAnnounced
    /\ \E buf \in DigestInputs : ingress = [NoIngress EXCEPT !.buf = buf]
    /\ peer = None

\* the digester runs the first pass over its buffer
Digest ==
    /\ ingress.first = Unparsed
    /\ ingress' = [ingress EXCEPT !.first = Parser_parse(ingress.buf)]
    /\ UNCHANGED <<session, urc_subscription, pc, cur, handles, ret, wire, cfg_cmds, mutex,
                   announced, peer>>

\* the frame of the first pass goes through the second pass and the event,
\* if there is one, is published into the subscription
Decode ==
    /\ ingress.first.kind = "Match"
    /\ ingress.second = Undecoded
    /\ LET d == AtatUrc_parse(ingress.first.frame) IN
       /\ ingress' = [ingress EXCEPT !.second = d]
       /\ urc_subscription' =
              IF d.kind = "Some" THEN Append(urc_subscription, d.urc[1]) ELSE urc_subscription
       /\ announced' =
              IF d.kind = "Some"
              THEN [announce(announced, d.urc[1]) EXCEPT !.ready = @ \/ d.urc[1].type = "Ready"]
              ELSE announced
    /\ UNCHANGED <<session, pc, cur, handles, ret, wire, cfg_cmds, mutex, peer>>

\* the application polls the join status once an event is pending, which
\* applies the published events to the session
NextDigest ==
    \/ Digest
    \/ Decode
    \/ urc_subscription # <<>> /\ GetJoinStatus
    \/ Return

SpecDigest == InitDigest /\ [][NextDigest]_vars

\* ------------------------------------------------------------------ claims
Range(q) == {q[i] : i \in 1..Len(q)}

SlotState(i) == session.sockets[i].state

Returned(op) == pc = "return" /\ ret.op = op

\* a call of the operation starts in this step
Called(op) == pc = "idle" /\ ret'.op = op

\* this step applied every pending URC to the session
Drained == urc_subscription # <<>> /\ urc_subscription' = <<>>

\* C1: whenever close() has returned, with Ok, CloseError or
\* UnconfirmedSocketState, the slot of the socket is Closed and socket() can
\* hand out that link id again (no lower Closed slot is needed for it to be
\* eligible: the next free id is at most this one).
C1_CloseFreesSlot ==
    Returned("close") =>
        /\ ret.result \in {"Ok", "CloseError", "UnconfirmedSocketState"}
        /\ SlotState(ret.link_id) = "Closed"
        /\ get_next_open(session) # None
        /\ get_next_open(session)[1] <= ret.link_id

C1_Witness == Returned("close") /\ ret.result = "CloseError" /\ wire = <<CmdCloseSocket(ret.link_id)>>

ClosedSlots == {i \in LinkIds : SlotState(i) = "Closed"}

\* C2: a socket() whose multi-connection configuration did not fail returns
\* the lowest Closed slot and changes that slot only, to Open; without a
\* Closed slot it returns NoSocketAvailable and changes no slot.
C2_SocketTakesLowestClosed ==
    [][(Called("socket") /\ ret'.result # "EnablingMultiConnectionsFailed") =>
          IF ClosedSlots # {}
          THEN /\ ret'.result = "Ok"
               /\ ret'.link_id \in ClosedSlots
               /\ \A j \in ClosedSlots : ret'.link_id <= j
               /\ session'.sockets = [session.sockets EXCEPT ![ret'.link_id].state = "Open"]
          ELSE /\ ret'.result = "NoSocketAvailable"
               /\ session'.sockets = session.sockets]_vars

C2_Witness ==
    /\ Returned("socket")
    /\ ret.result = "NoSocketAvailable"
    /\ \A i \in LinkIds : handles[i] = 1

\* C3: at every point of a sequence of socket(), connect(), close(),
\* restart() calls and URC deliveries no two Socket objects that socket()
\* returned and close() has not taken carry the same link id.
C3_HandlesUnique == \A i \in LinkIds : handles[i] <= 1

\* C4: whenever restart() returns Ok, every slot is Closed and ready is set.
C4_RestartOkAllClosed ==
    (Returned("restart") /\ ret.result = "Ok") =>
        /\ session.ready
        /\ \A i \in LinkIds : SlotState(i) = "Closed"

\* the step in which restart() hands the Restart command to the peer
RestartIssued == Called("restart") /\ wire' = <<CmdRestart>>

C6_ReconfiguredAfterRestart ==
    (Returned("restart") /\ ret.result = "Ok") =>
        LET e == enable_multiple_connections(session, TRUE)
            o == open_socket(e.session)
        IN /\ e.cmds = <<CmdSetMultipleConnections>>
           /\ o.link_id = 0
           /\ CmdSetSocketReceivingMode
                  \in Range(connect_begin(o.session, <<>>, 0, TRUE).cmds)

\* C7: between two session resets one successful CIPMUX and one successful
\* CIPRECVMODE command are sent at most, exactly when the latch is set; a call
\* sends the command iff its latch is clear, and sets the latch iff the
\* command succeeded.
C7_ConfiguredOnce ==
    /\ [](/\ cfg_cmds.cipmux = (IF session.multi_connections_enabled THEN 1 ELSE 0)
          /\ cfg_cmds.ciprecvmode = (IF session.passive_mode_enabled THEN 1 ELSE 0))
    /\ [][/\ Called("socket") =>
               /\ (wire' = <<CmdSetMultipleConnections>>) = ~session.multi_connections_enabled
               /\ (wire' = <<>>) = session.multi_connections_enabled
               /\ session'.multi_connections_enabled =
                      (ret'.result # "EnablingMultiConnectionsFailed")
          /\ (Called("connect") /\ ret'.result # "AlreadyConnected") =>
               /\ (CmdSetSocketReceivingMode \in Range(wire')) = ~session.passive_mode_enabled
               /\ session'.passive_mode_enabled =
                      (ret'.result # "EnablingPassiveSocketModeFailed")]_vars

C7_Witness ==
    /\ Returned("socket")
    /\ ret.result = "Ok"
    /\ ret.link_id = 1
    /\ wire = <<>>
    /\ cfg_cmds = [cipmux |-> 1, ciprecvmode |-> 1]

\* is_connected() answers whether the slot is Connected after its drain
IsConnectedAnswer ==
    Returned("is_connected") => (ret.value = 1) = (SlotState(ret.link_id) = "Connected")

\* slot i leaves Connected in this step
Disconnected(i) == SlotState(i) = "Connected" /\ session'.sockets[i].state # "Connected"

ClosedByPeerOrCaller(i) ==
    \/ Drained /\ UrcSocketClosed(i) \in Range(urc_subscription)
    \/ ret'.op = "close" /\ ret'.link_id = i

\* C8 as stated: after SocketConnected(id) was applied is_connected(id) is
\* true until SocketClosed(id) is applied or the socket is closed.
C8_ConnectedUntilClosed ==
    /\ []IsConnectedAnswer
    /\ [][\A i \in LinkIds : Disconnected(i) => ClosedByPeerOrCaller(i)]_vars

\* C8 amended: ... until SocketClosed(id) is applied, the socket is closed or
\* restart() resets the session.
C8_ConnectedUntilClosedOrRestart ==
    /\ []IsConnectedAnswer
    /\ [][\A i \in LinkIds :
            Disconnected(i) => (ClosedByPeerOrCaller(i) \/ Called("restart"))]_vars

C8_Witness ==
    /\ Returned("is_connected")
    /\ ret.value = 1
    /\ SlotState(ret.link_id) = "Connected"

\* a chunk of send() was completed without an error
ChunkSent == pc = "send_next" \/ (Returned("send") /\ ret.result = "Ok" /\ wire # <<>>)

\* C9: when a send chunk completes without error, send_confirmed is Ok and
\* recv_byte_count is unset or equal to the chunk length.
C9_ChunkConfirmed ==
    ChunkSent =>
        /\ session.send_confirmed = Some(TRUE)
        /\ session.recv_byte_count \in {None, Some(Len(cur.chunk))}

C9_Witness ==
    /\ Returned("send")
    /\ ret.result = "Ok"
    /\ ret.value = MaxSendLen
    /\ session.recv_byte_count = Some(Len(cur.chunk))

\* C10: send() on a slot that is Closing after the drain returns
\* ClosingSocket, on an Open or Closed slot SocketUnconnected; no command is
\* written, and send_confirmed and recv_byte_count stay as the drain left them.
C10_SendNeedsConnected ==
    [][\A id \in LinkIds : (Called("send") /\ ret'.link_id = id) =>
          LET d == process_urc_messages(session, urc_subscription) IN
          /\ d.sockets[id].state = "Closing" => ret'.result = "ClosingSocket"
          /\ d.sockets[id].state \in {"Open", "Closed"} => ret'.result = "SocketUnconnected"
          /\ ret'.result \in {"ClosingSocket", "SocketUnconnected"} =>
               /\ d.sockets[id].state # "Connected"
               /\ wire' = <<>>
               /\ pc' = "return"
               /\ session'.send_confirmed = d.send_confirmed
               /\ session'.recv_byte_count = d.recv_byte_count]_vars

C10_Witness ==
    /\ Returned("send")
    /\ ret.result = "ClosingSocket"
    /\ session.send_confirmed = Some(TRUE)
    /\ session.recv_byte_count # None

\* the byte count reported by the peer differs from the length of the chunk
CountMismatch(s) == s.recv_byte_count # None /\ s.recv_byte_count[1] # Len(cur.chunk)

RECURSIVE ChunkCmds(_, _, _)
ChunkCmds(id, buffer, from) ==
    IF from > Len(buffer)
    THEN <<>>
    ELSE LET to == IF from + TX_SIZE - 1 < Len(buffer) THEN from + TX_SIZE - 1 ELSE Len(buffer)
             chunk == [i \in 1..(to - from + 1) |-> buffer[from + i - 1]]
         IN <<CmdTransmissionPrepare(id, Len(chunk)), CmdTransmission(chunk)>>
                \o ChunkCmds(id, buffer, to + 1)

IsPrefix(a, b) == Len(a) <= Len(b) /\ a = SubSeq(b, 1, Len(a))

\* the buffer handed to the send() in progress
SentBuffer == [i \in 1..cur.length |-> i]

\* C13: send() writes, chunk by chunk and in buffer order, a prepare and a
\* payload command for consecutive chunks of at most TX_SIZE bytes; a further
\* chunk is started only after SEND OK for the one before; on success all
\* chunks were written and the buffer length is returned, 0 and no command
\* for an empty buffer.
C13_ChunksInOrder ==
    /\ [](ret.op = "send" => IsPrefix(wire, ChunkCmds(ret.link_id, SentBuffer, 1)))
    /\ []((Returned("send") /\ ret.result = "Ok") =>
             /\ wire = ChunkCmds(ret.link_id, SentBuffer, 1)
             /\ ret.value = cur.length
             /\ (ret.value = 0 => wire = <<>>))
    /\ [][(ret'.op = "send" /\ wire # <<>> /\ wire' # wire) =>
             /\ pc = "send_next"
             /\ session.send_confirmed = Some(TRUE)]_vars

C13_Witness ==
    /\ Returned("send")
    /\ ret.result = "Ok"
    /\ ret.value = MaxSendLen
    /\ Len(wire) = 4
    /\ wire[4].data = <<MaxSendLen>>

\* C12: whenever send() of the blocking adapter or write() of the async
\* adapter has returned SendFailed(Timeout), the reset of the transport client
\* was invoked before the return (and the chunk was written once).
C12_TimeoutResetsClient ==
    (/\ pc = "return"
     /\ ret.op \in {"send", "write"}
     /\ ret.result = "SendFailed(Timeout)") => cur.client_reset

\* the Connect command is answered and connect() comes to its result
ConnectAnswered == pc = "connect" /\ pc' = "return"

\* neither n,CONNECT for the slot nor ALREADY CONNECTED is among the URCs
\* that arrived after the Connect command was written
NoConfirmation ==
    /\ UrcSocketConnected(cur.link_id) \notin Range(urc_subscription)
    /\ UrcAlreadyConnected \notin Range(urc_subscription)

C15_AlreadyConnectedSucceeds ==
    /\ [](pc = "connect" => ~session.already_connected)
    /\ [][ConnectAnswered =>
             /\ UrcAlreadyConnected \in Range(urc_subscription) =>
                   /\ ret'.result = "Ok"
                   /\ session'.sockets[cur.link_id].state = "Connected"
             /\ NoConfirmation => ret'.result # "Ok"]_vars

C15_Witness ==
    /\ Returned("connect")
    /\ ret.result = "Ok"
    /\ session.already_connected
    /\ SlotState(ret.link_id) = "Connected"
    /\ session.sockets[ret.link_id].data_available = 0

\* C16: connect() on a socket whose slot is Connected once the pending URCs
\* are applied returns AlreadyConnected, writes no command (neither
\* AT+CIPRECVMODE nor AT+CIPSTART) and leaves the session as the drain left it.
C16_ConnectOnConnected ==
    [][Called("connect") =>
          LET d == process_urc_messages(session, urc_subscription) IN
          d.sockets[ret'.link_id].state = "Connected" =>
              /\ pc' = "return"
              /\ ret'.result = "AlreadyConnected"
              /\ wire' = <<>>
              /\ cfg_cmds' = cfg_cmds
              /\ session' = d]_vars

C16_Witness ==
    /\ Returned("connect")
    /\ ret.result = "AlreadyConnected"
    /\ ~session.passive_mode_enabled
    /\ wire = <<>>

\* C17: after every connect() that returns success the slot of the socket
\* has data_available = 0.
C17_ConnectResetsAvailable ==
    (Returned("connect") /\ ret.result = "Ok") =>
        session.sockets[ret.link_id].data_available = 0

\* C18: data_available[id] > 0 only while slot id is Connected or Closing.
C18_AvailableOnlyWhenConnected ==
    \A id \in LinkIds :
        session.sockets[id].data_available > 0 => SlotState(id) \in {"Connected", "Closing"}

\* the cells of the caller's buffer, all of them as the caller handed them over
Untouched(b) == \A i \in 1..Len(b.buffer) : b.buffer[i] = 0

\* no +IPD for the link is among the pending URCs
NoIpdFor(id) ==
    \A k \in 1..Len(urc_subscription) :
        urc_subscription[k].type = "DataAvailable" => urc_subscription[k].link_id # id

\* C19: receive() on a socket whose data_available is 0 once the pending URCs
\* are applied returns WouldBlock, writes no command and leaves the caller's
\* buffer as it was; +IPD notifications for other link ids do not change
\* that: with a count of 0 and no +IPD for this link pending, the result is
\* WouldBlock.
C19_NoDataWouldBlock ==
    [][Called("receive") =>
          LET d == process_urc_messages(session, urc_subscription)
              id == ret'.link_id
              noData == /\ pc' = "return"
                        /\ ret'.result = "WouldBlock"
                        /\ wire' = <<>>
                        /\ Untouched(cur'.buffer)
                        /\ cur'.buffer.position = 0
          IN /\ d.sockets[id].data_available = 0 => noData
             /\ (session.sockets[id].data_available = 0 /\ NoIpdFor(id)) => noData]_vars

C19_Witness ==
    /\ Returned("receive")
    /\ ret.result = "WouldBlock"
    /\ ret.link_id = 0
    /\ session.sockets[1].data_available > 0
    /\ Len(cur.buffer.buffer) = MaxRecvLen

\* the bytes receive() has written so far
Written == SubSeq(cur.buffer.buffer, 1, cur.buffer.position)

DataIn(q) == {k \in 1..Len(q) : q[k].type = "Data"}

\* the payload this pass of the loop takes out of the session: the one of
\* the last Data event, pending or applied before
Consumed ==
    IF DataIn(urc_subscription) # {}
    THEN urc_subscription[CHOOSE k \in DataIn(urc_subscription) :
                             \A j \in DataIn(urc_subscription) : j <= k].data
    ELSE session.data[1]

\* a pass of the receive loop: the ReceiveData command was answered
ReceivePass == pc = "receive" /\ Len(urc_subscription') <= Len(urc_subscription)

\* C20: while receive() runs the fill length never exceeds the buffer and
\* the cells behind it are untouched; every pass of the loop that goes on or
\* returns appends exactly the payload it consumed, a failing pass writes
\* nothing; every ReceiveData command asks for min(remaining space, RX_SIZE)
\* bytes; the value returned is the fill length, between 0 and buf.len.
C20_ReceivedIsConcatenation ==
    /\ [](ret.op = "receive" =>
             /\ cur.buffer.position <= Len(cur.buffer.buffer)
             /\ \A i \in 1..Len(cur.buffer.buffer) :
                   i > cur.buffer.position => cur.buffer.buffer[i] = 0)
    /\ []((Returned("receive") /\ ret.result = "Ok") =>
             /\ ret.value = Len(Written)
             /\ 0 <= ret.value /\ ret.value <= Len(cur.buffer.buffer))
    /\ [][Called("receive") => cur'.buffer.position = 0]_vars
    /\ [][ReceivePass =>
             /\ Len(cur'.buffer.buffer) = Len(cur.buffer.buffer)
             /\ Written' = IF ret'.result \in {"pending", "Ok"}
                           THEN Written \o Consumed
                           ELSE Written]_vars
    /\ [][(ret'.op = "receive" /\ wire' # wire) =>
             wire' = Append(wire, CmdReceiveData(ret'.link_id,
                                     Min(Len(cur'.buffer.buffer) - cur'.buffer.position,
                                         RX_SIZE)))]_vars

C20_Witness ==
    /\ Returned("receive")
    /\ ret.result = "Ok"
    /\ ret.value = 3
    /\ Written = <<1, 2, 2>>
    /\ wire = <<CmdReceiveData(0, 2), CmdReceiveData(0, 2)>>

\* C21: whenever a public operation has returned, no Data payload is left
\* in the session (pending_data is absent).
C21_NoPendingDataAtReturn ==
    pc = "return" => session.data = None

\* C22: join() with an SSID of more than 32 bytes returns InvalidSsidLength,
\* with a password of more than 63 bytes InvalidPasswordLength, and no command
\* was written to the peer.
C22_LengthsCheckedBeforeCommands ==
    (Returned("join") /\ ret.result \in {"InvalidSSDLength", "InvalidPasswordLength"}) =>
        wire = <<>>

\* C23 as stated: the JoinState returned by join() and get_join_status() is
\* the event-effect table folded over all URCs published so far, in order.
\* Violated: restart() resets the session.
C23_JoinStateIsFoldOfAll ==
    ((Returned("join") /\ ret.result = "Ok") \/ Returned("get_join_status")) =>
        cur.join_state = [connected |-> announced.joined, ip_assigned |-> announced.ip_assigned]

\* the event-effect table folded over a queue, oldest message first
RECURSIVE FoldTable(_, _)
FoldTable(a, q) == IF q = <<>> THEN a ELSE FoldTable(announce(a, Head(q)), Tail(q))

WifiFlags(s) == [joined |-> s.joined, ip_assigned |-> s.ip_assigned]

\* C23 amended: every drain folds the table over the pending URCs in arrival
\* order onto the flags of the session, nothing else changes the flags but
\* the session reset of restart(), and join() and get_join_status() return
\* the flags after their drain: the JoinState is the fold over the URCs
\* applied since the session was last reset.
C23_JoinStateIsFoldSinceReset ==
    /\ [](((Returned("join") /\ ret.result = "Ok") \/ Returned("get_join_status")) =>
             /\ cur.join_state = JoinState(session)
             /\ urc_subscription = <<>>)
    /\ [][LET applied == IF urc_subscription' = <<>> THEN urc_subscription ELSE <<>>
               folded == FoldTable(WifiFlags(session), applied)
           IN IF Called("restart")
              THEN WifiFlags(session') \in {folded, [joined |-> FALSE, ip_assigned |-> FALSE]}
              ELSE WifiFlags(session') = folded]_vars

C23_Witness ==
    /\ Returned("join")
    /\ ret.result = "Ok"
    /\ cur.join_state = [connected |-> FALSE, ip_assigned |-> TRUE]
    /\ ~announced.joined
    /\ announced.ip_assigned

RestartPass == pc = "restart" /\ Len(urc_subscription') <= Len(urc_subscription)

StepOf(op, i) == ret'.op = op /\ ret'.link_id = i

\* C25: every change of a slot's state is an edge of the per-socket state
\* machine: Closed->Open by socket(), Open->Connected by connect() with a
\* SocketConnected URC, Open->Closed, Connected->Closed and Closing->Closed by
\* close(), Connected->Closing by a SocketClosed URC, any->Closed by restart().
C25_OnlyStateMachineEdges ==
    [][\A i \in LinkIds :
          LET a == session.sockets[i].state
              b == session'.sockets[i].state
          IN a # b =>
               \/ a = "Closed" /\ b = "Open" /\ StepOf("socket", i)
               \/ /\ a = "Open" /\ b = "Connected" /\ StepOf("connect", i)
                  /\ UrcSocketConnected(i) \in Range(urc_subscription)
               \/ a = "Open" /\ b = "Closed" /\ StepOf("close", i)
               \/ /\ a = "Connected" /\ b = "Closing"
                  /\ UrcSocketClosed(i) \in Range(urc_subscription)
               \/ a = "Connected" /\ b = "Closed" /\ StepOf("close", i)
               \/ a = "Closing" /\ b = "Closed" /\ StepOf("close", i)
               \/ b = "Closed" /\ ret'.op = "restart"]_vars

SessionTouched ==
    \/ session' # session
    \/ Len(urc_subscription') < Len(urc_subscription)
    \/ wire' # wire /\ wire' # <<>>

C27_OneOperationHoldsMutex ==
    /\ [](mutex \in Tasks \cup {NoTask})
    /\ [](pc # "idle" => mutex \in Tasks)
    /\ [][/\ SessionTouched => mutex' \in Tasks
          /\ (mutex = NoTask /\ mutex' # NoTask) => pc = "idle"
          /\ (mutex # NoTask /\ mutex' # mutex) => (mutex' = NoTask /\ pc = "return")
          /\ (mutex # NoTask /\ mutex' = mutex) => ret'.op = ret.op]_vars

\* the second task is between two chunks of its write while a URC waits
C27_Witness ==
    /\ mutex = 2
    /\ pc = "write_next"
    /\ ret.op = "write"
    /\ urc_subscription # <<>>

\* the input is a complete +CIPRECVDATA frame in one of the two framings:
\* leading CRLFs, the header with the declared length and its delimiter,
\* and at least the declared number of payload bytes
CompleteFrame(lead, f, declared, payload, trail) ==
    /\ ingress.buf = FramedInput(lead, f, declared, payload, trail)
    /\ Len(payload \o trail) >= declared

\* the frame of such an input: the header and exactly the declared bytes
FrameOf(f, declared, payload, trail) ==
    f.header \o <<48 + declared>> \o <<f.delimiter>> \o SubSeq(payload \o trail, 1, declared)

\* C28: a +CIPRECVDATA frame is accepted in both framings: the first pass
\* returns the header plus exactly the declared payload bytes and consumes
\* the leading CRLF bytes plus the frame, and the second pass decodes the
\* frame to Data carrying exactly those bytes (for a payload of 1..RX_SIZE
\* bytes, which the Data event can hold).
C28_BothFramingsAccepted ==
    \A lead \in Leading, f \in Framings, declared \in 0..MaxPayload,
       payload \in SeqsUpTo({97, 13, 10}, MaxPayload), trail \in {<<>>, CRLF} :
        CompleteFrame(lead, f, declared, payload, trail) =>
            /\ ingress.first # Unparsed =>
                   ingress.first = Matched(FrameOf(f, declared, payload, trail),
                                           Len(lead) + Len(FrameOf(f, declared, payload, trail)))
            /\ (ingress.second # Undecoded /\ declared \in 1..RX_SIZE) =>
                   ingress.second = Decoded(UrcData(SubSeq(payload \o trail, 1, declared)))

\* C29: for every input buffer the first pass returns a framed match,
\* Incomplete or NoMatch, and never panics.
C29_FirstPassNeverPanics == ingress.first.kind \in {"Unparsed", "Match", "Incomplete", "NoMatch"}

\* C30: a pass of the wait loop of a send chunk whose drain leaves
\* send_confirmed Fail ends send() with SendFailed(Error), also when
\* recv_byte_count differs from the chunk length (never PartialSend), and
\* nothing else makes send() return SendFailed(Error); the failure does not
\* reach the next chunk or send(): every wait loop is entered with
\* send_confirmed and recv_byte_count unset, and a pass completes the chunk
\* exactly when its own drain leaves send_confirmed Ok and no differing count.
C30_SendFailTakesPrecedence ==
    /\ [][pc = "send_wait" =>
             /\ (pc' = "return" /\ ret'.result = "SendFailed(Error)")
                    = (session'.send_confirmed = Some(FALSE))
             /\ (pc' = "send_next" \/ (pc' = "return" /\ ret'.result = "Ok"))
                    = (session'.send_confirmed = Some(TRUE) /\ ~CountMismatch(session'))]_vars
    /\ [][(pc # "send_wait" /\ pc' = "send_wait") =>
             /\ session'.send_confirmed = None
             /\ session'.recv_byte_count = None]_vars
    /\ []((Returned("send") /\ ret.result = "SendFailed(Error)") =>
             session.send_confirmed = Some(FALSE))

\* SEND FAIL and a differing byte count were processed for the second chunk
C30_Witness ==
    /\ Returned("send")
    /\ ret.result = "SendFailed(Error)"
    /\ CountMismatch(session)
    /\ Len(wire) = 4

\* the buffer from its first byte that is neither CR nor LF
Body(buf) ==
    LET content == {i \in 1..Len(buf) : buf[i] # 13 /\ buf[i] # 10} IN
    IF content = {} THEN <<>> ELSE SubSeq(buf, Least(content), Len(buf))

\* the buffer holds the beginning of a +CIPRECVDATA frame in the framing f
\* and the frame is not complete: the length delimiter has not arrived, or
\* fewer bytes than the declared length follow it
PendingFrame(buf, f) ==
    LET body == Body(buf)
        rest == SubSeq(body, 14, Len(body))
        delimiters == {i \in 1..Len(rest) : rest[i] = f.delimiter}
    IN /\ Len(body) >= 12
       /\ SubSeq(body, 1, Min(Len(body), 13)) = SubSeq(f.header, 1, Min(Len(body), 13))
       /\ IF delimiters = {}
          THEN \A i \in 1..Len(rest) : IsDigit(rest[i])
          ELSE LET declared == parse_usize(SubSeq(rest, 1, Least(delimiters) - 1)) IN
               /\ declared # None
               /\ Len(rest) - Least(delimiters) < declared[1]

\* C31: for a buffer that, after leading CRLFs, starts with +CIPRECVDATA
\* (in either framing) and lacks the length delimiter or some of the
\* declared payload bytes, the first pass returns Incomplete: never NoMatch
\* and never a match before all declared bytes are present.
C31_PendingFrameIsIncomplete ==
    \A f \in Framings :
        (PendingFrame(ingress.buf, f) /\ ingress.first # Unparsed) => ingress.first = Incomplete

\* the first piece of buf.split("\r\n") that is not empty, and whether a
\* CRLF follows it
RECURSIVE FirstLine(_)
FirstLine(buf) ==
    LET ends == Occurrences(buf, CRLF)
        line == IF ends = {} THEN buf ELSE SubSeq(buf, 1, Least(ends) - 1)
    IN IF line = <<>> /\ ends # {}
       THEN FirstLine(SubSeq(buf, 3, Len(buf)))
       ELSE [line |-> line, terminated |-> ends # {}]

\* C32: when the first non-empty line of the buffer has fewer than 4 bytes,
\* the first pass returns Incomplete if no CRLF follows the line yet, and
\* NoMatch if the line is terminated.
C32_ShortLineVerdict ==
    LET first == FirstLine(ingress.buf) IN
    (/\ first.line # <<>>
     /\ Len(first.line) < 4
     /\ ingress.first # Unparsed)
        => ingress.first = IF first.terminated THEN NoMatch ELSE Incomplete

\* the frame is a line '<byte>,CONNECT' or '<byte>,CLOSED'
SocketLine(frame) ==
    /\ Len(frame) >= 3
    /\ SubSeq(frame, 2, Len(frame) - 2) \in {Lit.connect, Lit.closed}

\* C33: every SocketConnected(id) and SocketClosed(id) event of the second
\* pass has an id in 0..4, a socket line with any other first byte yields no
\* event, and applying a DataAvailable(id, len) with id >= 5 leaves the
\* session as it was; so every event applied to the session addresses one
\* of the five slots or nothing.
C33_EventsStayInsideSlots ==
    /\ [](ingress.second.kind = "Some" =>
            LET m == ingress.second.urc[1] IN
            /\ m.type \in {"SocketConnected", "SocketClosed"} => m.link_id \in LinkIds
            /\ m.type = "DataAvailable" /\ m.link_id >= SocketCount =>
                   handle_urc(session, m) = session)
    /\ []((ingress.first.kind = "Match" /\ SocketLine(ingress.first.frame)
           /\ ingress.second # Undecoded) =>
            IF ingress.first.frame[1] \in 48..52
            THEN /\ ingress.second.kind = "Some"
                 /\ ingress.second.urc[1].link_id = ingress.first.frame[1] - 48
            ELSE ingress.second = NoEvent)
    /\ [][(/\ Returned("get_join_status")'
           /\ ~Returned("get_join_status")
           /\ \A i \in 1..Len(urc_subscription) :
                  /\ urc_subscription[i].type \in {"DataAvailable", "Unknown", "Echo"}
                  /\ urc_subscription[i].type = "DataAvailable" =>
                         urc_subscription[i].link_id >= SocketCount)
          => session' = session]_vars

\* +IPD,7,1 was decoded to DataAvailable(7, 1) and applied, and the session
\* is as it was constructed
C33_Witness ==
    /\ ingress.second.kind = "Some"
    /\ ingress.second.urc[1].type = "DataAvailable"
    /\ ingress.second.urc[1].link_id >= SocketCount
    /\ Returned("get_join_status")
    /\ urc_subscription = <<>>
    /\ session = DefaultSession

\* C39: whenever the first pass returns a match, the consumed count is at
\* most the length of the buffer, on the length-prefixed path, the line path
\* and the boot banner path.
C39_ConsumedWithinBuffer ==
    ingress.first.kind = "Match" => ingress.first.consumed <= Len(ingress.buf)

\* C34: between operations every slot that no live handle owns (no Socket
\* returned by socket() and not yet closed) is Closed, whatever URCs were
\* delivered, so the slot is available to socket().
C34_UnownedSlotsClosed ==
    pc = "idle" => \A i \in LinkIds : handles[i] = 0 => SlotState(i) = "Closed"

\* results with which the async connect() fails after it opened a slot
ConnectFailures ==
    {"EnablingPassiveSocketModeFailed", "ConnectError", "UnconfirmedSocketState",
     "AlreadyConnected"}

\* C36: when the async connect() returns EnablingPassiveSocketModeFailed,
\* ConnectError, UnconfirmedSocketState or AlreadyConnected, the slot it
\* opened is Closed again, so failed connects use up no slot.
C36_FailedConnectFreesSlot ==
    (Returned("asynch_connect") /\ ret.result \in ConnectFailures) =>
        SlotState(ret.link_id) = "Closed"

\* C35: a read() that waits for data on its socket does not keep the other
\* tasks out: the adapter becomes free for them, also when the peer never
\* announces data for the socket.
C35_WaitingReadFreesAdapter == (pc = "read_wait") ~> (mutex = NoTask)

\* C37: send() writes the TransmissionPrepare command and the payload of a
\* further chunk only while the slot of the socket is Connected: after a
\* SocketClosed URC was processed during the confirmation of an earlier
\* chunk no further chunk is written.
C37_ChunksOnlyWhileConnected ==
    [][(pc = "send_next" /\ wire' # wire) => SlotState(cur.link_id) = "Connected"]_vars

\* C38: send() reports its chunk as sent only when the peer has answered
\* the payload of this chunk: the answers come in the order of the
\* payloads, so every payload handed over up to this chunk is answered, and
\* an answer the peer gave to an earlier chunk whose send timed out does not
\* count for the chunk.
C38_ConfirmedByOwnAnswer ==
    [][(pc = "send_wait" /\ pc' = "return" /\ ret'.op = "send" /\ ret'.result = "Ok")
          => peer = Some(0)]_vars

\* C40: receive() terminates: every pass of its pull loop returns an error
\* or appends at least one byte to the caller's buffer, so a call writes at
\* most as many ReceiveData commands as the buffer has bytes, also when +IPD
\* arrives during the call; and a pass that consumed a payload of L bytes
\* leaves data_available of the slot at max(0, previous - L), previous being
\* the value after the URCs of the pass were applied.
C40_ReceiveTerminates ==
    /\ [][(pc = "receive" /\ ret'.op = "receive" /\ ret'.result \in {"pending", "Ok"}
           /\ <<session, cur, ret, wire>>' # <<session, cur, ret, wire>>)
             => cur'.buffer.position > cur.buffer.position]_vars
    /\ [](ret.op = "receive" => Len(wire) <= Len(cur.buffer.buffer))
    /\ [][(pc = "receive" /\ ret'.op = "receive" /\ ret'.result \in {"pending", "Ok"}
           /\ <<session, cur, ret, wire>>' # <<session, cur, ret, wire>>)
             => LET d == process_urc_messages(session, urc_subscription)
                    previous == d.sockets[cur.link_id].data_available
                    L == Len(d.data[1])
                IN session'.sockets[cur.link_id].data_available =
                       IF previous < L THEN 0 ELSE previous - L]_vars
====
